---- MODULE Spec2Model ----
(***************************************************************************)
(* A model of the rzeigler/raytracing path tracer: the geometry of         *)
(* geom.rs (vectors, rays, materials, spheres, boxes, the BVH), the        *)
(* renderer of draw.rs, the PPM writer of ppm.rs, and the canvas, pixel,   *)
(* sphere and background of the earlier canvas.rs, data.rs and tracer.rs.  *)
(*                                                                         *)
(* f64 values are modelled exactly, as elements (p + s*sqrt(d))/q of a     *)
(* real quadratic field, extended with IEEE's +inf, -inf and NaN. Rounding *)
(* and the sign of zero are not modelled.                                  *)
(***************************************************************************)
EXTENDS Integers, Sequences, FiniteSets, TLC

VARIABLES
    \* Sphere::hit and Hit::new on one ray: the arguments, the Option<Hit>
    \* returned, the outward normal handed to Hit::new
    ray, sphere, min_t, max_t, outward, hit, pc,
    \* bvh_split_hittables: the primitives and time window it is given, the
    \* axes it drew, the tree it returned; the hit of Collection::new over
    \* the same primitives
    prims, window, axes_drawn, world, coll_hit,
    \* BVHNode::hit on world: the calls it made to its children's hit
    queries,
    \* surrounding_box and AABB::hit: two boxes and what the calls returned
    box_a, box_b, box_out,
    \* Material::scatter on hit.material: the draws it takes from the rng,
    \* the Option<Scatter> returned
    sample, scatter,
    \* ray_color: the depth of the outermost call and of the running call,
    \* the attenuations of the calls waiting for their recursive call, the
    \* numbers of world.hit and scatter calls made, the Pixel returned
    depth0, depth, frames, hit_tests, scatters, color,
    \* the attenuations of the bounces of the path so far, and the innermost
    \* call that did not recurse: what it was given and what it returned
    path, terminal,
    \* draw: its arguments, the colour sums the samples of each pixel add up
    \* to, the rows vector collect_into_vec fills, the scanlines in the order
    \* their tasks completed, the buffer returned
    width, height, image, rows, completed, output_buffer,
    \* ppm::write: the canvas and the text written
    canvas, written,
    \* canvas.rs: a Canvas, its pixels before the last at_mut, and that call
    grid, grid_before, grid_call,
    \* data.rs: a Canvas, the places written through a Pixel setter, the bytes
    \* rgba_bytes returned
    data_canvas, data_written, rgba,
    \* data.rs Vec3::cross: its operands and the vector returned
    cross_a, cross_b, cross_out

sphere_vars == <<ray, sphere, min_t, max_t, outward, hit, pc>>
bvh_vars == <<prims, window, axes_drawn, world, coll_hit, queries>>
box_vars == <<box_a, box_b, box_out>>
scatter_vars == <<sample, scatter>>
color_vars == <<depth0, depth, frames, hit_tests, scatters, color, path, terminal>>
draw_vars == <<width, height, image, rows, completed, output_buffer>>
ppm_vars == <<canvas, written>>
render_vars == <<color_vars, draw_vars, ppm_vars>>
canvas_vars == <<grid, grid_before, grid_call>>
data_vars == <<data_canvas, data_written, rgba>>
cross_vars == <<cross_a, cross_b, cross_out>>
early_vars == <<canvas_vars, data_vars, cross_vars>>
vars == <<sphere_vars, bvh_vars, box_vars, scatter_vars, render_vars, early_vars>>

(***************************************************************************)
(* f64: (p + s*sqrt(d))/q with q > 0, or q = 0 for +inf (p = 1),           *)
(* -inf (p = -1) and NaN (p = 0).                                          *)
(***************************************************************************)
Abs(n) == IF n < 0 THEN -n ELSE n

Sgn(n) == IF n < 0 THEN -1 ELSE IF n > 0 THEN 1 ELSE 0

RECURSIVE GCD(_, _)
GCD(a, b) == IF b = 0 THEN a ELSE GCD(b, a % b)

\* the largest k with k*k dividing n (n > 0), searched downwards from k
RECURSIVE SquarePartFrom(_, _)
SquarePartFrom(n, k) ==
    IF k <= 1 THEN 1
    ELSE IF n % (k * k) = 0 THEN k
    ELSE SquarePartFrom(n, k - 1)

RECURSIVE ISqrtFrom(_, _)
ISqrtFrom(n, k) == IF (k + 1) * (k + 1) > n THEN k ELSE ISqrtFrom(n, k + 1)

\* floor of the square root of n >= 0
ISqrt(n) == ISqrtFrom(n, 0)

SquarePart(n) == SquarePartFrom(n, ISqrt(n))

NaN == [p |-> 0, s |-> 0, d |-> 0, q |-> 0]
PInf == [p |-> 1, s |-> 0, d |-> 0, q |-> 0]
NInf == [p |-> -1, s |-> 0, d |-> 0, q |-> 0]

\* (p + s*sqrt(d))/q in lowest terms, for q # 0 and d square-free
Norm(p, s, d, q) ==
    LET s1 == IF d = 0 THEN 0 ELSE s
        g == GCD(GCD(Abs(p), Abs(s1)), Abs(q))
        sg == IF q < 0 THEN -1 ELSE 1
    IN [p |-> (sg * p) \div g, s |-> (sg * s1) \div g,
        d |-> IF s1 = 0 THEN 0 ELSE d, q |-> Abs(q) \div g]

\* sqrt(n)/q for n >= 0, q > 0: the square part of n is taken out of the root
NormSqrt(n, q) ==
    LET k == IF n = 0 THEN 0 ELSE SquarePart(n)
        d == IF n = 0 THEN 0 ELSE n \div (k * k)
    IN IF d <= 1 THEN Norm(k, 0, 0, q) ELSE Norm(0, k, d, q)

F(n) == [p |-> n, s |-> 0, d |-> 0, q |-> 1]

Frac(n, m) == Norm(n, 0, 0, m)

IsNaN(x) == x.q = 0 /\ x.p = 0

IsFinite(x) == x.q # 0

\* the sign of p + s*sqrt(d)
SignOpposed(p, s, d) ==
    IF p * p > s * s * d THEN Sgn(p)
    ELSE IF p * p = s * s * d THEN 0
    ELSE Sgn(s)

Sign2(p, s, d) ==
    IF s = 0 \/ d = 0 THEN Sgn(p)
    ELSE IF p = 0 THEN Sgn(s)
    ELSE IF Sgn(p) = Sgn(s) THEN Sgn(p)
    ELSE SignOpposed(p \div GCD(Abs(p), Abs(s)), s \div GCD(Abs(p), Abs(s)), d)

\* the sign of a + b*sqrt(d1) + c*sqrt(d2)
Sign3(a, b, d1, c, d2) ==
    IF b = 0 \/ d1 = 0 THEN Sign2(a, c, d2)
    ELSE IF c = 0 \/ d2 = 0 THEN Sign2(a, b, d1)
    ELSE IF d1 = d2 THEN Sign2(a, b + c, d1)
    ELSE LET su == IF Sgn(b) = Sgn(c) THEN Sgn(b)
                   ELSE Sgn(b) * Sgn(b * b * d1 - c * c * d2)
         IN IF a = 0 \/ Sgn(a) = su THEN su
            ELSE IF su = 0 THEN Sgn(a)
            ELSE LET m == Sign2(a * a - b * b * d1 - c * c * d2, -2 * b * c, d1 * d2)
                 IN IF m > 0 THEN Sgn(a) ELSE IF m = 0 THEN 0 ELSE su

\* the sign of x, not NaN
Sign(x) == IF x.q = 0 THEN x.p ELSE Sign2(x.p, x.s, x.d)

\* the sign of x - y for x, y not NaN: -1, 0 or 1
Cmp(x, y) ==
    IF x.q = 0 \/ y.q = 0
    THEN Sgn((IF x.q = 0 THEN 2 * x.p ELSE 0) - (IF y.q = 0 THEN 2 * y.p ELSE 0))
    ELSE Sign3(x.p * y.q - y.p * x.q, x.s * y.q, x.d, -(y.s * x.q), y.d)

\* f64's comparisons: every comparison with a NaN is false
Lt(x, y) == ~IsNaN(x) /\ ~IsNaN(y) /\ Cmp(x, y) < 0
Gt(x, y) == Lt(y, x)
Le(x, y) == ~IsNaN(x) /\ ~IsNaN(y) /\ Cmp(x, y) <= 0
Ge(x, y) == Le(y, x)
Eq(x, y) == ~IsNaN(x) /\ ~IsNaN(y) /\ Cmp(x, y) = 0

\* the field of a sum or product: both operands lie in one Q(sqrt(d))
FieldOf(x, y) ==
    IF x.s = 0 THEN y.d
    ELSE IF y.s = 0 \/ y.d = x.d THEN x.d
    ELSE CHOOSE n \in {} : TRUE

Neg(x) == [p |-> -x.p, s |-> -x.s, d |-> x.d, q |-> x.q]

Add(x, y) ==
    IF IsNaN(x) \/ IsNaN(y) THEN NaN
    ELSE IF x.q = 0 THEN (IF y.q = 0 /\ y.p # x.p THEN NaN ELSE x)
    ELSE IF y.q = 0 THEN y
    ELSE Norm(x.p * y.q + y.p * x.q, x.s * y.q + y.s * x.q, FieldOf(x, y), x.q * y.q)

Sub(x, y) == Add(x, Neg(y))

Mul(x, y) ==
    IF IsNaN(x) \/ IsNaN(y) THEN NaN
    ELSE IF x.q = 0 \/ y.q = 0
         THEN LET sg == Sign(x) * Sign(y)
              IN IF sg = 0 THEN NaN ELSE IF sg > 0 THEN PInf ELSE NInf
    ELSE LET d == FieldOf(x, y)
         IN Norm(x.p * y.p + x.s * y.s * d, x.p * y.s + x.s * y.p, d, x.q * y.q)

\* 1/x
Inv(x) ==
    IF IsNaN(x) THEN NaN
    ELSE IF x.q = 0 THEN F(0)
    ELSE IF x.p = 0 /\ x.s = 0 THEN PInf
    ELSE Norm(x.q * x.p, -(x.q * x.s), x.d, x.p * x.p - x.s * x.s * x.d)

Div(x, y) ==
    IF IsNaN(x) \/ IsNaN(y) THEN NaN
    ELSE IF x.q = 0 /\ y.q = 0 THEN NaN
    ELSE IF y.q # 0 /\ y.p = 0 /\ y.s = 0
         THEN LET sg == Sign(x)
              IN IF sg = 0 THEN NaN ELSE IF sg > 0 THEN PInf ELSE NInf
    ELSE Mul(x, Inv(y))

\* f64::sqrt of a rational (or non-finite) value
Sqrt(x) ==
    IF IsNaN(x) THEN NaN
    ELSE IF x.q = 0 THEN (IF x.p > 0 THEN PInf ELSE NaN)
    ELSE IF x.s # 0 THEN CHOOSE n \in {} : TRUE
    ELSE IF x.p < 0 THEN NaN
    ELSE NormSqrt(x.p * x.q, x.q)

\* f64::min / f64::max: a NaN operand is ignored
Min(x, y) == IF IsNaN(x) THEN y ELSE IF IsNaN(y) THEN x ELSE IF Lt(y, x) THEN y ELSE x
Max(x, y) == IF IsNaN(x) THEN y ELSE IF IsNaN(y) THEN x ELSE IF Gt(y, x) THEN y ELSE x

(***************************************************************************)
(* Vec3 of geom.rs: a triple of f64.                                       *)
(***************************************************************************)
V(x, y, z) == <<F(x), F(y), F(z)>>

Vec3_add(u, v) == <<Add(u[1], v[1]), Add(u[2], v[2]), Add(u[3], v[3])>>

Vec3_sub(u, v) == <<Sub(u[1], v[1]), Sub(u[2], v[2]), Sub(u[3], v[3])>>

Vec3_scale(k, v) == <<Mul(v[1], k), Mul(v[2], k), Mul(v[3], k)>>

Vec3_div(v, k) == <<Div(v[1], k), Div(v[2], k), Div(v[3], k)>>

length_squared(v) == Add(Add(Mul(v[1], v[1]), Mul(v[2], v[2])), Mul(v[3], v[3]))

dot(u, v) == Add(Add(Mul(u[1], v[1]), Mul(u[2], v[2])), Mul(u[3], v[3]))

flip(v) == <<Neg(v[1]), Neg(v[2]), Neg(v[3])>>

Ray_at(r, t) == Vec3_add(r.origin, Vec3_scale(t, r.direction))

(***************************************************************************)
(* Hit and Sphere of geom.rs. Option<Hit> is a record with a some field.   *)
(***************************************************************************)
None == [some |-> FALSE]

Hit_new_unflipped(point, outward_normal, t, r, material) ==
    [some |-> TRUE, point |-> point, normal |-> outward_normal, t |-> t,
     front_face |-> Lt(dot(r.direction, outward_normal), F(0)), material |-> material]

Hit_new(point, outward_normal, t, r, material) ==
    LET front_face == Lt(dot(r.direction, outward_normal), F(0))
        normal == IF front_face THEN outward_normal ELSE flip(outward_normal)
    IN [some |-> TRUE, point |-> point, normal |-> normal, t |-> t,
        front_face |-> front_face, material |-> material]

\* Sphere::new: center1 = center0 at time f64::INFINITY
Sphere_new(center, radius, material) ==
    [kind |-> "Sphere", center0 |-> center, time0 |-> F(0), center1 |-> center,
     time1 |-> PInf, radius |-> radius, material |-> material]

Sphere_new_moving(center0, time0, center1, time1, radius, material) ==
    [kind |-> "Sphere", center0 |-> center0, time0 |-> time0, center1 |-> center1,
     time1 |-> time1, radius |-> radius, material |-> material]

Sphere_center(s, time) ==
    Vec3_add(s.center0,
             Vec3_scale(Div(Sub(time, s.time0), Sub(s.time1, s.time0)),
                        Vec3_sub(s.center1, s.center0)))

\* the hit Sphere::hit builds for the root t
Sphere_hit_at(s, r, t) ==
    LET point == Ray_at(r, t)
        outward_normal == Vec3_div(Vec3_sub(point, Sphere_center(s, r.time)), s.radius)
    IN Hit_new(point, outward_normal, t, r, s.material)

Sphere_hit_larger_first(s, r, tmin, tmax) ==
    LET oc == Vec3_sub(r.origin, Sphere_center(s, r.time))
        a == length_squared(r.direction)
        half_b == dot(oc, r.direction)
        c == Sub(length_squared(oc), Mul(s.radius, s.radius))
        discriminant == Sub(Mul(half_b, half_b), Mul(a, c))
        root == Sqrt(discriminant)
        t1 == Div(Sub(Neg(half_b), root), a)
        t2 == Div(Add(Neg(half_b), root), a)
    IN IF Lt(discriminant, F(0)) THEN None
       ELSE IF Lt(t2, tmax) /\ Gt(t2, tmin) THEN Sphere_hit_at(s, r, t2)
       ELSE IF Lt(t1, tmax) /\ Gt(t1, tmin) THEN Sphere_hit_at(s, r, t1)
       ELSE None

Sphere_hit(s, r, tmin, tmax) ==
    LET oc == Vec3_sub(r.origin, Sphere_center(s, r.time))
        a == length_squared(r.direction)
        half_b == dot(oc, r.direction)
        c == Sub(length_squared(oc), Mul(s.radius, s.radius))
        discriminant == Sub(Mul(half_b, half_b), Mul(a, c))
        root == Sqrt(discriminant)
        t1 == Div(Sub(Neg(half_b), root), a)
        t2 == Div(Add(Neg(half_b), root), a)
    IN IF Lt(discriminant, F(0)) THEN None
       ELSE IF Lt(t1, tmax) /\ Gt(t1, tmin) THEN Sphere_hit_at(s, r, t1)
       ELSE IF Lt(t2, tmax) /\ Gt(t2, tmin) THEN Sphere_hit_at(s, r, t2)
       ELSE None

(***************************************************************************)
(* AABB, Collection, BVHNode and Ephemeral of geom.rs. A Hittable is a     *)
(* record tagged with its kind; Option<AABB> is a record with a some       *)
(* field.                                                                  *)
(***************************************************************************)
NoBox == [some |-> FALSE]

AABB_new(a, b) == [some |-> TRUE, min |-> a, max |-> b]

surrounding_box_small_max(box0, box1) ==
    AABB_new(<<Max(box0.min[1], box1.min[1]), Min(box0.min[2], box1.min[2]),
               Min(box0.min[3], box1.min[3])>>,
             <<Max(box0.max[1], box1.max[1]), Max(box0.max[2], box1.max[2]),
               Max(box0.max[3], box1.max[3])>>)

surrounding_box(box0, box1) ==
    AABB_new(<<Min(box0.min[1], box1.min[1]), Min(box0.min[2], box1.min[2]),
               Min(box0.min[3], box1.min[3])>>,
             <<Max(box0.max[1], box1.max[1]), Max(box0.max[2], box1.max[2]),
               Max(box0.max[3], box1.max[3])>>)

Sphere_bounding_box_start(s, t0, t1) ==
    LET rv == <<s.radius, s.radius, s.radius>>
        box0 == AABB_new(Vec3_sub(Sphere_center(s, t0), rv), Vec3_add(Sphere_center(s, t0), rv))
    IN surrounding_box(box0, box0)

Sphere_bounding_box(s, t0, t1) ==
    LET rv == <<s.radius, s.radius, s.radius>>
        box0 == AABB_new(Vec3_sub(Sphere_center(s, t0), rv), Vec3_add(Sphere_center(s, t0), rv))
        box1 == AABB_new(Vec3_sub(Sphere_center(s, t1), rv), Vec3_add(Sphere_center(s, t1), rv))
    IN surrounding_box(box0, box1)

\* one pass of the loop of AABB::hit for axis a: FALSE is the early return.
\* The loop's `let tmin`, `let tmax` shadow the parameters inside one pass
\* only, so every pass starts from the interval AABB::hit was called with.
AABB_hit_axis(b, r, tmin, tmax, a) ==
    LET inv_d == Div(F(1), r.direction[a])
        u0 == Mul(Sub(b.min[a], r.origin[a]), inv_d)
        u1 == Mul(Sub(b.max[a], r.origin[a]), inv_d)
        t0 == IF Lt(inv_d, F(0)) THEN u1 ELSE u0
        t1 == IF Lt(inv_d, F(0)) THEN u0 ELSE u1
        tmin_a == IF Gt(t0, tmin) THEN t0 ELSE tmin
        tmax_a == IF Lt(t1, tmax) THEN t1 ELSE tmax
    IN ~Le(tmax_a, tmin_a)

AABB_hit_two_axes(b, r, tmin, tmax) ==
    \A a \in 1..2 : AABB_hit_axis(b, r, tmin, tmax, a)

AABB_hit(b, r, tmin, tmax) ==
    \A a \in 1..3 : AABB_hit_axis(b, r, tmin, tmax, a)

Ephemeral == [kind |-> "Ephemeral"]

Collection_new(v) == [kind |-> "Collection", items |-> v]

\* the match of BVHNode::new and of Collection::bounding_box
JoinBoxes(l, r) ==
    IF l.some /\ r.some THEN surrounding_box(l, r)
    ELSE IF l.some THEN l
    ELSE IF r.some THEN r
    ELSE NoBox

RECURSIVE bounding_box(_, _, _)
RECURSIVE Collection_bounding_box_from(_, _, _, _, _)
Collection_bounding_box_from(items, t0, t1, i, bound) ==
    IF i > Len(items) THEN bound
    ELSE Collection_bounding_box_from(items, t0, t1, i + 1,
             JoinBoxes(bound, bounding_box(items[i], t0, t1)))

bounding_box(h, t0, t1) ==
    CASE h.kind = "Sphere" -> Sphere_bounding_box(h, t0, t1)
      [] h.kind = "Collection" -> Collection_bounding_box_from(h.items, t0, t1, 1, NoBox)
      [] h.kind = "BVHNode" -> h.aabb
      [] h.kind = "Ephemeral" -> NoBox

BVHNode_new_left_box(left, right, time0, time1) ==
    [kind |-> "BVHNode", left |-> left, right |-> right, time0 |-> time0,
     time1 |-> time1, aabb |-> bounding_box(left, time0, time1)]

BVHNode_new(left, right, time0, time1) ==
    [kind |-> "BVHNode", left |-> left, right |-> right, time0 |-> time0,
     time1 |-> time1,
     aabb |-> JoinBoxes(bounding_box(left, time0, time1), bounding_box(right, time0, time1))]

\* Option::or
Or(first, second) == IF first.some THEN first ELSE second

RECURSIVE Hittable_hit(_, _, _, _)
RECURSIVE Collection_hit_from_unnarrowed(_, _, _, _, _, _)
Collection_hit_from_unnarrowed(items, r, tmin, tmax, i, current_hit) ==
    IF i > Len(items) THEN current_hit
    ELSE Collection_hit_from_unnarrowed(items, r, tmin, tmax, i + 1,
             Or(Hittable_hit(items[i], r, tmin, tmax), current_hit))

RECURSIVE Collection_hit_from(_, _, _, _, _, _)
Collection_hit_from(items, r, tmin, tmax, i, current_hit) ==
    IF i > Len(items) THEN current_hit
    ELSE LET max_i == IF current_hit.some THEN current_hit.t ELSE tmax
         IN Collection_hit_from(items, r, tmin, tmax, i + 1,
                Or(Hittable_hit(items[i], r, tmin, max_i), current_hit))

Collection_hit(c, r, tmin, tmax) == Collection_hit_from(c.items, r, tmin, tmax, 1, None)

BVHNode_hit_unnarrowed(n, r, tmin, tmax) ==
    IF n.aabb.some /\ AABB_hit(n.aabb, r, tmin, tmax)
    THEN LET hit_left == Hittable_hit(n.left, r, tmin, tmax)
             hit_right == Hittable_hit(n.right, r, tmin, tmax)
         IN Or(hit_right, hit_left)
    ELSE None

BVHNode_hit_left_first(n, r, tmin, tmax) ==
    IF n.aabb.some /\ AABB_hit(n.aabb, r, tmin, tmax)
    THEN LET hit_left == Hittable_hit(n.left, r, tmin, tmax)
             max_r == IF hit_left.some THEN hit_left.t ELSE tmax
             hit_right == Hittable_hit(n.right, r, tmin, max_r)
         IN Or(hit_left, hit_right)
    ELSE None

BVHNode_hit(n, r, tmin, tmax) ==
    IF n.aabb.some /\ AABB_hit(n.aabb, r, tmin, tmax)
    THEN LET hit_left == Hittable_hit(n.left, r, tmin, tmax)
             max_r == IF hit_left.some THEN hit_left.t ELSE tmax
             hit_right == Hittable_hit(n.right, r, tmin, max_r)
         IN Or(hit_right, hit_left)
    ELSE None

Hittable_hit(h, r, tmin, tmax) ==
    CASE h.kind = "Sphere" -> Sphere_hit(h, r, tmin, tmax)
      [] h.kind = "Collection" -> Collection_hit(h, r, tmin, tmax)
      [] h.kind = "BVHNode" -> BVHNode_hit(h, r, tmin, tmax)
      [] h.kind = "Ephemeral" -> None

\* the calls of BVHNode::hit to its children's hit, in the order made, given
\* the outcome of the box test and the left child's answer
BVHNode_hit_queries(box_hit, hit_left, tmin, tmax) ==
    IF box_hit
    THEN <<[child |-> "left", min_t |-> tmin, max_t |-> tmax],
           [child |-> "right", min_t |-> tmin,
            max_t |-> IF hit_left.some THEN hit_left.t ELSE tmax]>>
    ELSE <<>>

\* Axis: X, Y, Z are the components 1, 2, 3
Axis == 1..3

min_on_axis(axis, h, t0, t1) ==
    LET b == bounding_box(h, t0, t1) IN IF b.some THEN b.min[axis] ELSE F(0)

\* the comparator of the sort_by call: partial_cmp(..).unwrap_or(Equal) is Less
KeyLess(axis, l, r, t0, t1) == Lt(min_on_axis(axis, l, t0, t1), min_on_axis(axis, r, t0, t1))

\* slice::sort_by is stable: x goes after the elements that are not greater
RECURSIVE InsertSorted(_, _, _, _, _)
InsertSorted(axis, sorted, x, t0, t1) ==
    IF sorted = <<>> THEN <<x>>
    ELSE IF KeyLess(axis, x, sorted[Len(sorted)], t0, t1)
         THEN Append(InsertSorted(axis, SubSeq(sorted, 1, Len(sorted) - 1), x, t0, t1),
                     sorted[Len(sorted)])
    ELSE Append(sorted, x)

RECURSIVE sort_by_from(_, _, _, _, _, _)
sort_by_from(axis, hittables, t0, t1, i, sorted) ==
    IF i > Len(hittables) THEN sorted
    ELSE sort_by_from(axis, hittables, t0, t1, i + 1,
                      InsertSorted(axis, sorted, hittables[i], t0, t1))

sort_by(axis, hittables, t0, t1) == sort_by_from(axis, hittables, t0, t1, 1, <<>>)

\* the number of Axis::random draws of bvh_split_hittables on n hittables
RECURSIVE AxisDraws(_)
AxisDraws(n) == IF n < 2 THEN 0 ELSE 1 + AxisDraws(n \div 2) + AxisDraws(n - n \div 2)

\* rng is the sequence of axes Axis::random will draw, in call order: the
\* call itself, then the left half's calls, then the right half's
RECURSIVE bvh_split_hittables(_, _, _, _)
bvh_split_sorted_dropping(rng, sorted, point, t0, t1) ==
    BVHNode_new(
        bvh_split_hittables(SubSeq(rng, 2, 1 + AxisDraws(point)),
                            SubSeq(sorted, 1, point), t0, t1),
        bvh_split_hittables(SubSeq(rng, 2 + AxisDraws(point), Len(rng)),
                            SubSeq(sorted, point + 2, Len(sorted)), t0, t1),
        t0, t1)

\* the else branch of bvh_split_hittables after the sort: split_off at the
\* middle and a node over the two halves
bvh_split_sorted(rng, sorted, point, t0, t1) ==
    BVHNode_new(
        bvh_split_hittables(SubSeq(rng, 2, 1 + AxisDraws(point)),
                            SubSeq(sorted, 1, point), t0, t1),
        bvh_split_hittables(SubSeq(rng, 2 + AxisDraws(point), Len(rng)),
                            SubSeq(sorted, point + 1, Len(sorted)), t0, t1),
        t0, t1)

bvh_split_hittables(rng, hittables, t0, t1) ==
    IF Len(hittables) = 0 THEN Ephemeral
    ELSE IF Len(hittables) = 1 THEN hittables[1]
    ELSE bvh_split_sorted(rng, sort_by(rng[1], hittables, t0, t1),
                          Len(hittables) \div 2, t0, t1)

(***************************************************************************)
(* The materials of geom.rs. rng holds the draws a scatter call takes: the *)
(* UnitBall sample and the Uniform(0, 1) sample. Option<Scatter> is a      *)
(* record with a some field.                                               *)
(***************************************************************************)
unit(v) == Vec3_div(v, Sqrt(length_squared(v)))

Ray_new_at(origin, direction, at) == [origin |-> origin, direction |-> direction, time |-> at]

RECURSIVE powi(_, _)
powi(x, n) == IF n = 0 THEN F(1) ELSE Mul(x, powi(x, n - 1))

NoScatter == [some |-> FALSE]

SomeScatter(scattered, attenuation) ==
    [some |-> TRUE, scattered |-> scattered, attenuation |-> attenuation]

Lambertian_new(albedo) == [kind |-> "Lambertian", albedo |-> albedo]

Lambertian_scatter(m, r, h, rng) ==
    LET scatter_direction == Vec3_add(h.normal, rng.ball)
    IN SomeScatter(Ray_new_at(h.point, scatter_direction, r.time), m.albedo)

Metal_new(albedo, f) ==
    [kind |-> "Metal", albedo |-> albedo, fuzz |-> IF Lt(f, F(1)) THEN f ELSE F(1)]

reflect(v, n) == Vec3_sub(v, Vec3_scale(Mul(F(2), dot(v, n)), n))

Metal_scatter_on_zero(m, r, h, rng) ==
    LET reflected == reflect(unit(r.direction), h.normal)
        scattered == Ray_new_at(h.point, Vec3_add(reflected, Vec3_scale(m.fuzz, rng.ball)),
                                r.time)
    IN IF Ge(dot(scattered.direction, h.normal), F(0))
       THEN SomeScatter(scattered, m.albedo)
       ELSE NoScatter

Metal_scatter(m, r, h, rng) ==
    LET reflected == reflect(unit(r.direction), h.normal)
        scattered == Ray_new_at(h.point, Vec3_add(reflected, Vec3_scale(m.fuzz, rng.ball)),
                                r.time)
    IN IF Gt(dot(scattered.direction, h.normal), F(0))
       THEN SomeScatter(scattered, m.albedo)
       ELSE NoScatter

refact(uv, n, etai_over_etat) ==
    LET cos_theta == dot(flip(uv), n)
        r_out_parallel == Vec3_scale(etai_over_etat, Vec3_add(uv, Vec3_scale(cos_theta, n)))
        r_out_perp == Vec3_scale(Neg(Sqrt(Sub(F(1), length_squared(r_out_parallel)))), n)
    IN Vec3_add(r_out_parallel, r_out_perp)

Dielectric_new(ref_idx) == [kind |-> "Dielectric", ref_idx |-> ref_idx]

schlick(cosine, ref_idx) ==
    LET r0 == powi(Div(Sub(F(1), ref_idx), Add(F(1), ref_idx)), 2)
    IN Add(r0, Mul(Sub(F(1), r0), powi(Sub(F(1), cosine), 5)))

\* the condition of the if of Dielectric::scatter: the reflect branch
Dielectric_reflects(m, r, h, rng) ==
    LET etai_over_etat == IF h.front_face THEN Div(F(1), m.ref_idx) ELSE m.ref_idx
        cos_theta == Min(dot(flip(unit(r.direction)), h.normal), F(1))
        sin_theta == Sqrt(Sub(F(1), powi(cos_theta, 2)))
        reflect_prob == schlick(cos_theta, etai_over_etat)
    IN Gt(Mul(etai_over_etat, sin_theta), F(1)) \/ Lt(rng.uniform, reflect_prob)

Dielectric_scatter(m, r, h, rng) ==
    LET attenuation == V(1, 1, 1)
        etai_over_etat == IF h.front_face THEN Div(F(1), m.ref_idx) ELSE m.ref_idx
        unit_direction == unit(r.direction)
    IN IF Dielectric_reflects(m, r, h, rng)
       THEN SomeScatter(Ray_new_at(h.point, reflect(unit_direction, h.normal), r.time),
                        attenuation)
       ELSE SomeScatter(Ray_new_at(h.point, refact(unit_direction, h.normal, etai_over_etat),
                                   r.time),
                        attenuation)

\* the dyn Material call hit.material.scatter(ray, &hit, rng)
Material_scatter(m, r, h, rng) ==
    CASE m.kind = "Lambertian" -> Lambertian_scatter(m, r, h, rng)
      [] m.kind = "Metal" -> Metal_scatter(m, r, h, rng)
      [] m.kind = "Dielectric" -> Dielectric_scatter(m, r, h, rng)

(***************************************************************************)
(* ray_color of draw.rs. The world and its materials are any Hittable and  *)
(* any Material: what world.hit and scatter return is chosen freely.       *)
(***************************************************************************)
Vec3_mul_first(u, v) == <<Mul(u[1], v[1]), Mul(u[1], v[2]), Mul(u[1], v[3])>>

Vec3_mul(u, v) == <<Mul(u[1], v[1]), Mul(u[2], v[2]), Mul(u[3], v[3])>>

recursion_depth_same(d) == d

\* the depth ray_color hands to its recursive call
recursion_depth(d) == d - 1

\* the last three lines of ray_color: the colour of a ray that hits nothing
background(r) ==
    LET unit_direction == unit(r.direction)
        t == Mul(Frac(1, 2), Add(unit_direction[2], F(1)))
    IN Vec3_add(Vec3_scale(Sub(F(1), t), V(1, 1, 1)),
                Vec3_scale(t, <<Frac(1, 2), Frac(7, 10), F(1)>>))

ray_color_branch_unchecked(d, world_hit, sc) ==
    IF world_hit.some
    THEN IF sc.some THEN "scattered" ELSE "absorbed"
    ELSE "background"

\* the path one call of ray_color takes through its ifs, given what
\* world.hit and scatter return when they are called
ray_color_branch(d, world_hit, sc) ==
    IF d = 0 THEN "exhausted"
    ELSE IF world_hit.some
         THEN IF sc.some THEN "scattered" ELSE "absorbed"
    ELSE "background"

(***************************************************************************)
(* draw of draw.rs. A row of the image is the sequence of its bytes.       *)
(***************************************************************************)
\* an f64 `as u8`: truncated towards zero, saturated at 0 and 255, 0 for NaN
as_u8(x) ==
    IF IsNaN(x) \/ Lt(x, F(1)) THEN 0
    ELSE IF Ge(x, F(255)) THEN 255
    ELSE IF x.s = 0 THEN x.p \div x.q
    ELSE CHOOSE n \in 1..254 : Le(F(n), x) /\ Lt(x, F(n + 1))

clamp(v, lower, upper) == Max(Min(v, upper), lower)

\* Pixel::as_rgb
as_rgb(c, samples) ==
    LET scale == Div(F(1), F(samples))
        r == Sqrt(Mul(c[1], scale))
        g == Sqrt(Mul(c[2], scale))
        b == Sqrt(Mul(c[3], scale))
        ir == as_u8(Mul(clamp(r, F(0), F(1)), F(255)))
        ig == as_u8(Mul(clamp(g, F(0), F(1)), F(255)))
        ib == as_u8(Mul(clamp(b, F(0), F(1)), F(255)))
    IN <<ir, ig, ib, 255>>

samples_per_pixel == 100

\* the k-th scanline (0..h).into_par_iter().rev() yields, k from 0
rev_forward(h, k) == k

rev(h, k) == h - 1 - k

\* the closure of map for scanline j: img[<<i, j>>] is the colour the
\* samples_per_pixel calls of ray_color for pixel (i, j) add up to
RECURSIVE row_pixels_from(_, _, _, _, _)
row_pixels_from(img, w, j, i, pixels) ==
    IF i >= w THEN pixels
    ELSE row_pixels_from(img, w, j, i + 1, pixels \o as_rgb(img[<<i, j>>], samples_per_pixel))

row_pixels(img, w, j) == row_pixels_from(img, w, j, 0, <<>>)

\* rows.into_iter().for_each(|row| output_buffer.extend_from_slice(..))
RECURSIVE extend_from_rows(_, _, _)
extend_from_rows(buffer, rs, k) ==
    IF k > Len(rs) THEN buffer ELSE extend_from_rows(buffer \o rs[k], rs, k + 1)

(***************************************************************************)
(* ppm.rs. The text written is a string. The Canvas of ppm.rs keeps one    *)
(* triple of f64 per pixel; its at(j, i) is the pixel of row j, column i.  *)
(***************************************************************************)
DigitChars == <<"0", "1", "2", "3", "4", "5", "6", "7", "8", "9">>

\* the {} of an unsigned integer
RECURSIVE Display(_)
Display(n) ==
    IF n < 10 THEN DigitChars[n + 1]
    ELSE Display(n \div 10) \o DigitChars[(n % 10) + 1]

Canvas_at(cv, x, y) == cv.pixels[x + 1][y + 1]

write_pixel(p) ==
    Display(as_u8(Mul(p[1], Frac(25599, 100)))) \o " "
        \o Display(as_u8(Mul(p[2], Frac(25599, 100)))) \o " "
        \o Display(as_u8(Mul(p[3], Frac(25599, 100)))) \o "\n"

\* for i in 0..canvas.width
RECURSIVE write_row(_, _, _)
write_row(cv, j, i) ==
    IF i >= cv.width THEN ""
    ELSE write_pixel(Canvas_at(cv, j, i)) \o write_row(cv, j, i + 1)

RECURSIVE write_rows_upwards(_, _)
write_rows_upwards(cv, j) ==
    IF j < 0 THEN ""
    ELSE write_rows_upwards(cv, j - 1) \o write_row(cv, j, 0)

\* for j in (0..canvas.height).rev(), from row j on
RECURSIVE write_rows(_, _)
write_rows(cv, j) ==
    IF j < 0 THEN ""
    ELSE write_row(cv, j, 0) \o write_rows(cv, j - 1)

ppm_write(cv) ==
    "P3\n" \o Display(cv.width) \o " " \o Display(cv.height) \o "\n255\n"
        \o write_rows(cv, cv.height - 1)

(***************************************************************************)
(* data.rs: the Vec3 of the first chapters, a struct of x, y and z, here   *)
(* the components 1, 2 and 3.                                              *)
(***************************************************************************)
data_Vec3_new(e0, e1, e2) == <<e0, e1, e2>>

data_Vec3_dot(a, rhs) ==
    Add(Add(Mul(a[1], rhs[1]), Mul(a[2], rhs[2])), Mul(a[3], rhs[3]))

data_Vec3_cross(a, rhs) ==
    data_Vec3_new(Sub(Mul(a[2], a[3]), Mul(rhs[3], rhs[2])),
                  Sub(Mul(a[3], a[2]), Mul(rhs[2], rhs[3])),
                  Sub(Mul(a[1], a[2]), Mul(rhs[2], rhs[1])))

(***************************************************************************)
(* data.rs: Hit and the Sphere of the first chapters, at a fixed centre.   *)
(***************************************************************************)
data_Hit_new(point, t, r, outward_normal) ==
    LET front_face == Lt(dot(r.direction, outward_normal), F(0))
        real_normal == IF front_face THEN outward_normal ELSE flip(outward_normal)
    IN [some |-> TRUE, point |-> point, normal |-> real_normal, t |-> t,
        front_face |-> front_face]

data_Sphere_new(center, radius) == [center |-> center, radius |-> radius]

\* Some(Hit::new(..)) for the root t when it is inside (t_min, t_max)
data_Sphere_found(s, r, t, t_min, t_max) ==
    IF Lt(t, t_max) /\ Gt(t, t_min)
    THEN LET point == Ray_at(r, t)
             outward_normal == Vec3_div(Vec3_sub(point, s.center), s.radius)
         IN data_Hit_new(point, t, r, outward_normal)
    ELSE None

data_Sphere_hit(s, r, t_min, t_max) ==
    LET oc == Vec3_sub(r.origin, s.center)
        a == length_squared(r.direction)
        half_b == dot(oc, r.direction)
        c == Sub(length_squared(oc), powi(s.radius, 2))
        discriminant == Sub(powi(half_b, 2), Mul(a, c))
        root == Sqrt(discriminant)
        t1 == Div(Sub(Neg(half_b), root), a)
        t2 == Div(Add(Neg(half_b), root), a)
    IN IF Gt(discriminant, F(0))
       THEN Or(data_Sphere_found(s, r, t2, t_min, t_max),
               data_Sphere_found(s, r, t1, t_min, t_max))
       ELSE None

(***************************************************************************)
(* tracer.rs: the background of the first chapter. The Vec3 it imports     *)
(* (a tuple struct with UNIT, unit_vector and y) is not among the sources: *)
(* UNIT is (1, 1, 1) and unit_vector the vector divided by its length.     *)
(***************************************************************************)
UNIT == V(1, 1, 1)

unit_vector(v) == Vec3_div(v, Sqrt(length_squared(v)))

tracer_ray_color(r) ==
    LET unit_direction == unit_vector(r.direction)
        t == Add(Mul(Frac(1, 2), unit_direction[2]), F(1))
    IN Vec3_add(Vec3_scale(Sub(F(1), t), UNIT),
                Vec3_scale(t, <<Frac(1, 2), Frac(7, 10), F(1)>>))

(***************************************************************************)
(* canvas.rs: a grid of u8 pixels, a Vec of `height` rows of `width`       *)
(* pixels each. Indexing a Vec out of bounds panics.                       *)
(***************************************************************************)
canvas_Pixel_new == [r |-> 0, g |-> 8, b |-> 0]

canvas_Canvas_new(h, w) ==
    [width |-> w, height |-> h,
     pixels |-> [i \in 1..h |-> [j \in 1..w |-> canvas_Pixel_new]]]

\* self.pixels[x][y] does not panic
canvas_in_bounds(cv, x, y) ==
    /\ x < Len(cv.pixels)
    /\ y < Len(cv.pixels[x + 1])

\* Canvas::at where it does not panic
canvas_at(cv, x, y) == cv.pixels[x + 1][y + 1]

\* *canvas.at_mut(x, y) = p where it does not panic
canvas_at_mut(cv, x, y, p) ==
    [cv EXCEPT !.pixels[x + 1][y + 1] = p]

(***************************************************************************)
(* data.rs: Pixel, four u8 in data, and Canvas, a Vec of `height` rows of  *)
(* `width` pixels.                                                         *)
(***************************************************************************)
data_Pixel_new == <<0, 0, 0, 0>>

red(p) == p[1]

set_red(p, r) == [p EXCEPT ![1] = r]

blue(p) == p[2]

set_blue(p, b) == [p EXCEPT ![2] = b]

green(p) == p[3]

set_green(p, g) == [p EXCEPT ![3] = g]

alpha(p) == p[4]

set_rgb(p, r, g, b) == set_blue(set_green(set_red(p, r), g), b)

set_color(p, c) ==
    set_blue(set_green(set_red(p, as_u8(Mul(c[1], Frac(25599, 100)))),
                       as_u8(Mul(c[2], Frac(25599, 100)))),
             as_u8(Mul(c[3], Frac(25599, 100))))

set_color_sampled(p, c, samples) ==
    LET scale == Div(F(1), F(samples))
    IN set_color(p, <<Mul(c[1], scale), Mul(c[2], scale), Mul(c[3], scale)>>)

data_Canvas_new(w, h) ==
    [width |-> w, height |-> h,
     pixels |-> [i \in 1..h |-> [j \in 1..w |-> data_Pixel_new]]]

data_at(cv, x, y) == cv.pixels[y + 1][x + 1]

\* the four bytes rgba_bytes stores at offset for the pixel p
rgba_group(p) == <<red(p), green(p), blue(p), alpha(p)>>

\* the inner loop of rgba_bytes: row i from column j on
RECURSIVE rgba_row(_, _, _)
rgba_row(cv, i, j) ==
    IF j >= cv.width THEN <<>>
    ELSE rgba_group(data_at(cv, j, i)) \o rgba_row(cv, i, j + 1)

\* the outer loop of rgba_bytes: rows i, i - 1, .., 0
RECURSIVE rgba_rows(_, _)
rgba_rows(cv, i) ==
    IF i < 0 THEN <<>> ELSE rgba_row(cv, i, 0) \o rgba_rows(cv, i - 1)

rgba_bytes(cv) == rgba_rows(cv, cv.height - 1)

(***************************************************************************)
(* The inputs of the sphere operations.                                    *)
(***************************************************************************)
Origins == {V(0, 0, 0), V(0, 0, 3), V(1, 0, 3), V(0, 1, 2), V(-2, 1, 0)}

Directions == {V(0, 0, -1), V(0, 0, 1), V(0, 0, -2), V(1, 0, -1), V(0, 1, -1),
               V(1, 1, -2), V(-1, 0, -3), V(1, 0, 0)}

RayTimes == {F(0), Frac(1, 2), F(1)}

Rays == [origin : Origins, direction : Directions, time : RayTimes]

\* (0.001, INFINITY) is the interval ray_color passes
Intervals == {<<Frac(1, 1000), PInf>>, <<F(0), F(2)>>, <<F(1), F(4)>>,
              <<F(-5), F(5)>>, <<F(2), F(3)>>, <<F(3), F(3)>>}

Spheres == {Sphere_new(V(0, 0, 0), F(1), 1),
            Sphere_new(V(0, 0, -1), Frac(1, 2), 1),
            Sphere_new(V(1, 0, 0), F(2), 2),
            Sphere_new(V(0, 1, 0), F(1), 2),
            Sphere_new_moving(V(0, 0, 0), F(0), V(0, 2, 0), F(1), F(1), 3),
            Sphere_new_moving(V(-1, 0, 1), F(0), V(1, 0, 1), F(1), Frac(1, 2), 3)}

\* the outward normals and parameters handed to Hit::new directly
Normals == {V(0, 0, 1), V(0, 0, -1), V(1, 0, 0), V(0, -1, 0), V(1, 1, 0),
            <<Frac(3, 5), F(0), Frac(4, 5)>>, <<F(0), Frac(-3, 5), Frac(4, 5)>>}

\* the variables of the BVH build, at rest
BvhIdle ==
    /\ prims = <<>>
    /\ window = <<F(0), F(1)>>
    /\ axes_drawn = <<>>
    /\ world = Ephemeral
    /\ coll_hit = None
    /\ queries = <<>>

\* no box call made
BoxIdle ==
    /\ box_a = NoBox
    /\ box_b = NoBox
    /\ box_out = [op |-> "none"]

\* no scatter call made
ScatterIdle ==
    /\ sample = [ball |-> V(0, 0, 0), uniform |-> F(0)]
    /\ scatter = [some |-> FALSE]

\* no ray_color call made
ColorIdle ==
    /\ depth0 = 0
    /\ depth = 0
    /\ frames = <<>>
    /\ hit_tests = 0
    /\ scatters = 0
    /\ color = V(0, 0, 0)
    /\ path = <<>>
    /\ terminal = None

\* no draw call made
DrawIdle ==
    /\ width = 0
    /\ height = 0
    /\ image = <<>>
    /\ rows = <<>>
    /\ completed = <<>>
    /\ output_buffer = <<>>

\* no ppm::write call made
PpmIdle ==
    /\ canvas = [width |-> 0, height |-> 0, pixels |-> <<>>]
    /\ written = ""

\* no canvas.rs call made
CanvasIdle ==
    /\ grid = None
    /\ grid_before = None
    /\ grid_call = None

\* no data.rs call made
DataIdle ==
    /\ data_canvas = None
    /\ data_written = {}
    /\ rgba = None

\* no Vec3::cross call made
CrossIdle ==
    /\ cross_a = V(0, 0, 0)
    /\ cross_b = V(0, 0, 0)
    /\ cross_out = None

EarlyIdle == CanvasIdle /\ DataIdle /\ CrossIdle

\* the variables of Sphere::hit and Hit::new, at rest
SphereIdle ==
    /\ ray = [origin |-> V(0, 0, 0), direction |-> V(0, 0, -1), time |-> F(0)]
    /\ sphere = Sphere_new(V(0, 0, 0), F(1), 1)
    /\ min_t = F(0)
    /\ max_t = PInf
    /\ outward = V(0, 0, 0)
    /\ hit = None

SphereInit ==
    /\ ray \in Rays
    /\ sphere \in Spheres
    /\ \E i \in Intervals : min_t = i[1] /\ max_t = i[2]
    /\ outward = V(0, 0, 0)
    /\ hit = None
    /\ pc = "call"
    /\ BvhIdle /\ BoxIdle /\ ScatterIdle /\ ColorIdle /\ DrawIdle /\ PpmIdle /\ EarlyIdle

\* sphere.hit(&ray, min_t, max_t)
SphereHit ==
    /\ pc = "call"
    /\ hit' = Sphere_hit(sphere, ray, min_t, max_t)
    /\ pc' = "hit"
    /\ UNCHANGED <<ray, sphere, min_t, max_t, outward>>
    /\ UNCHANGED <<bvh_vars, box_vars, scatter_vars, render_vars, early_vars>>

\* Hit::new(ray.at(t), outward_normal, t, &ray, material)
HitNew ==
    /\ pc = "call"
    /\ \E n \in Normals, t \in {F(0), F(1), Frac(1, 2)} :
          /\ outward' = n
          /\ hit' = Hit_new(Ray_at(ray, t), n, t, ray, sphere.material)
    /\ pc' = "new"
    /\ UNCHANGED <<ray, sphere, min_t, max_t>>
    /\ UNCHANGED <<bvh_vars, box_vars, scatter_vars, render_vars, early_vars>>

SphereNext == SphereHit \/ HitNew

SphereSpec == SphereInit /\ [][SphereNext]_vars

(***************************************************************************)
(* C1: Sphere::hit returns Some exactly when the discriminant              *)
(* half_b^2 - a*c is >= 0 and a root lies strictly inside (min_t, max_t);  *)
(* the t returned is the smaller root whenever that root is in range, the  *)
(* larger root only when the smaller one is out of range; and the t        *)
(* returned solves a*t^2 + 2*half_b*t + c = 0.                             *)
(***************************************************************************)
Quad_oc == Vec3_sub(ray.origin, Sphere_center(sphere, ray.time))
Quad_a == length_squared(ray.direction)
Quad_half_b == dot(Quad_oc, ray.direction)
Quad_c == Sub(length_squared(Quad_oc), Mul(sphere.radius, sphere.radius))
Quad_disc == Sub(Mul(Quad_half_b, Quad_half_b), Mul(Quad_a, Quad_c))
SmallerRoot == Div(Sub(Neg(Quad_half_b), Sqrt(Quad_disc)), Quad_a)
LargerRoot == Div(Add(Neg(Quad_half_b), Sqrt(Quad_disc)), Quad_a)
InRange(t) == Gt(t, min_t) /\ Lt(t, max_t)
QuadAt(t) == Add(Add(Mul(Quad_a, Mul(t, t)), Mul(F(2), Mul(Quad_half_b, t))), Quad_c)

C1_SphereHitRoots ==
    pc = "hit" =>
        /\ hit.some <=> /\ Ge(Quad_disc, F(0))
                        /\ InRange(SmallerRoot) \/ InRange(LargerRoot)
        /\ hit.some =>
              /\ InRange(hit.t)
              /\ Eq(QuadAt(hit.t), F(0))
              /\ InRange(SmallerRoot) => Eq(hit.t, SmallerRoot)
              /\ ~InRange(SmallerRoot) => Eq(hit.t, LargerRoot)
              /\ Le(SmallerRoot, LargerRoot)

\* both roots are in range and the hit is at the smaller one
C1_Witness ==
    /\ pc = "hit" /\ hit.some
    /\ InRange(SmallerRoot) /\ InRange(LargerRoot)
    /\ Lt(SmallerRoot, LargerRoot)
    /\ Eq(hit.t, SmallerRoot)

\* the smaller root is out of range and the hit is at the larger one
C1_WitnessLarger ==
    /\ pc = "hit" /\ hit.some
    /\ ~InRange(SmallerRoot)
    /\ Eq(hit.t, LargerRoot)

(***************************************************************************)
(* C2: Hit::new sets front_face exactly when                               *)
(* dot(ray.direction, outward_normal) < 0, stores outward_normal when      *)
(* front_face and its negation otherwise; so every Hit produced, by        *)
(* Hit::new directly or through Sphere::hit, has                           *)
(* dot(ray.direction, hit.normal) <= 0.                                    *)
(***************************************************************************)
C2_HitNewFrontFace ==
    /\ pc = "new" =>
          /\ hit.front_face <=> Lt(dot(ray.direction, outward), F(0))
          /\ hit.normal = IF hit.front_face THEN outward ELSE flip(outward)
    /\ (pc \in {"new", "hit"} /\ hit.some) => Le(dot(ray.direction, hit.normal), F(0))

\* Hit::new was handed a back-facing normal and flipped it
C2_Witness ==
    /\ pc = "new"
    /\ Gt(dot(ray.direction, outward), F(0))
    /\ ~hit.front_face
    /\ hit.normal = flip(outward)

(***************************************************************************)
(* data.rs: CanHit::hit of a Sphere on one ray.                            *)
(***************************************************************************)
DataSphereInit ==
    /\ SphereInit
    /\ sphere.center0 = sphere.center1

\* Sphere::new(center, radius).hit(&ray, min_t, max_t)
DataSphereHit ==
    /\ pc = "call"
    /\ hit' = data_Sphere_hit(data_Sphere_new(sphere.center0, sphere.radius),
                              ray, min_t, max_t)
    /\ pc' = "data_hit"
    /\ UNCHANGED <<ray, sphere, min_t, max_t, outward>>
    /\ UNCHANGED <<bvh_vars, box_vars, scatter_vars, render_vars, early_vars>>

DataSphereNext == DataSphereHit

DataSphereSpec == DataSphereInit /\ [][DataSphereNext]_vars

(***************************************************************************)
(* C19: the Sphere hit of data.rs, when the discriminant is non-negative,  *)
(* returns the first root strictly inside (t_min, t_max), the smaller root *)
(* tested first: the smaller root when both are in range; and a tangent    *)
(* ray (discriminant exactly 0) whose root is in range yields Some.        *)
(***************************************************************************)
C19_DataSphereSmallerRootFirst ==
    (pc = "data_hit" /\ Ge(Quad_disc, F(0))) =>
       /\ InRange(SmallerRoot) => (hit.some /\ Eq(hit.t, SmallerRoot))
       /\ (~InRange(SmallerRoot) /\ InRange(LargerRoot)) =>
             (hit.some /\ Eq(hit.t, LargerRoot))
       /\ (~InRange(SmallerRoot) /\ ~InRange(LargerRoot)) => ~hit.some

(***************************************************************************)
(* Building a BVH over a list of spheres and querying it with a ray.       *)
(***************************************************************************)
MaxPrims == 3

BvhSpheres == {Sphere_new(V(0, 0, 0), F(1), 1),
               Sphere_new(V(0, 0, -1), Frac(1, 2), 1),
               Sphere_new(V(1, 0, 0), F(2), 2),
               Sphere_new_moving(V(0, 0, 0), F(0), V(0, 2, 0), F(1), F(1), 3)}

\* the lists of up to MaxPrims different spheres, in every order
PrimLists ==
    UNION {{l \in [1..n -> BvhSpheres] : \A i, j \in 1..n : l[i] = l[j] => i = j} :
           n \in 0..MaxPrims}

Windows == {<<F(0), F(1)>>, <<F(0), Frac(1, 2)>>}

BvhOrigins == {V(0, 0, 3), V(-2, 1, 0), V(0, 3, 3)}

BvhDirections == {V(0, 0, -1), V(1, 0, -1), V(0, 1, -2), V(1, 0, 0)}

BvhRays == [origin : BvhOrigins, direction : BvhDirections, time : RayTimes]

BvhIntervals == {<<Frac(1, 1000), PInf>>, <<F(2), F(3)>>}

BvhInit ==
    /\ prims \in PrimLists
    /\ window \in Windows
    /\ axes_drawn = <<>>
    /\ world = Ephemeral
    /\ coll_hit = None
    /\ queries = <<>>
    /\ hit = None
    /\ pc = "build"
    /\ ray = [origin |-> V(0, 0, 0), direction |-> V(0, 0, -1), time |-> F(0)]
    /\ sphere = Sphere_new(V(0, 0, 0), F(1), 1)
    /\ min_t = F(0)
    /\ max_t = PInf
    /\ outward = V(0, 0, 0)
    /\ BoxIdle /\ ScatterIdle /\ ColorIdle /\ DrawIdle /\ PpmIdle /\ EarlyIdle

\* world = bvh_split_hittables(&mut rng, prims, t0, t1)
Build ==
    /\ pc = "build"
    /\ \E axes \in [1..AxisDraws(Len(prims)) -> Axis] :
          /\ axes_drawn' = axes
          /\ world' = bvh_split_hittables(axes, prims, window[1], window[2])
    /\ pc' = "built"
    /\ UNCHANGED <<prims, window, coll_hit, queries, hit, ray, sphere, min_t, max_t, outward>>
    /\ UNCHANGED <<box_vars, scatter_vars, render_vars, early_vars>>

\* world.hit(&ray, min_t, max_t) and Collection::new(prims).hit(&ray, min_t, max_t)
Query ==
    /\ pc = "built"
    /\ \E r \in BvhRays, i \in BvhIntervals :
          /\ ray' = r
          /\ min_t' = i[1]
          /\ max_t' = i[2]
          /\ hit' = Hittable_hit(world, r, i[1], i[2])
          /\ coll_hit' = Collection_hit(Collection_new(prims), r, i[1], i[2])
    /\ pc' = "queried"
    /\ UNCHANGED <<prims, window, axes_drawn, world, queries, sphere, outward>>
    /\ UNCHANGED <<box_vars, scatter_vars, render_vars, early_vars>>

BvhNext == Build \/ Query

BvhSpec == BvhInit /\ [][BvhNext]_vars

SameHit(h1, h2) == (h1.some <=> h2.some) /\ (h1.some => Eq(h1.t, h2.t))

InWindow(time) == Le(window[1], time) /\ Le(time, window[2])

(***************************************************************************)
(* C3 as stated: for every list of spheres, every sequence of split axes,  *)
(* every ray and every interval, the tree returned by bvh_split_hittables  *)
(* and Collection::new over the same list both miss or both hit at the     *)
(* same t.                                                                 *)
(***************************************************************************)
C3_BvhSameAsCollection == pc = "queried" => SameHit(hit, coll_hit)

(***************************************************************************)
(* C3 amended: the same, for every ray whose time lies in the window       *)
(* [t0, t1] the tree was built over.                                       *)
(***************************************************************************)
C3_BvhSameAsCollectionInWindow ==
    (pc = "queried" /\ InWindow(ray.time)) => SameHit(hit, coll_hit)

\* a tree of three spheres and a list of them hit at the same t, and the
\* hit is not the one of the first sphere of the list
C3_Witness ==
    /\ pc = "queried" /\ InWindow(ray.time)
    /\ Len(prims) = 3
    /\ hit.some /\ coll_hit.some /\ Eq(hit.t, coll_hit.t)
    /\ ~SameHit(hit, Sphere_hit(prims[1], ray, min_t, max_t))

(***************************************************************************)
(* C4: for every non-empty list of primitives and every sequence of split  *)
(* axes, the bounding_box of the root returned by bvh_split_hittables is   *)
(* surrounding_box folded over the primitives' bounding_box(t0, t1),       *)
(* whatever the axes drawn and the shape of the tree.                      *)
(***************************************************************************)
RECURSIVE FoldSurrounding(_, _, _)
FoldSurrounding(l, i, acc) ==
    IF i > Len(l) THEN acc
    ELSE FoldSurrounding(l, i + 1,
             surrounding_box(acc, Sphere_bounding_box(l[i], window[1], window[2])))

C4_RootBoxIsFold ==
    (pc = "built" /\ Len(prims) >= 1) =>
        bounding_box(world, window[1], window[2])
            = FoldSurrounding(prims, 2, Sphere_bounding_box(prims[1], window[1], window[2]))

\* a tree of three spheres, split on two different axes, whose root box is
\* larger than the box of either child
C4_Witness ==
    /\ pc = "built" /\ Len(prims) = 3
    /\ axes_drawn[1] # axes_drawn[2]
    /\ world.kind = "BVHNode"
    /\ world.aabb # bounding_box(world.left, window[1], window[2])
    /\ world.aabb # bounding_box(world.right, window[1], window[2])
    /\ world.aabb = FoldSurrounding(prims, 2, Sphere_bounding_box(prims[1], window[1], window[2]))

(***************************************************************************)
(* Collection::hit on a list of spheres and one ray.                       *)
(***************************************************************************)
CollInit ==
    /\ prims \in PrimLists
    /\ window = <<F(0), F(1)>>
    /\ axes_drawn = <<>>
    /\ world = Ephemeral
    /\ coll_hit = None
    /\ queries = <<>>
    /\ pc = "coll"
    /\ SphereIdle
    /\ BoxIdle /\ ScatterIdle /\ ColorIdle /\ DrawIdle /\ PpmIdle /\ EarlyIdle

\* Collection::new(prims).hit(&ray, min_t, max_t)
CollectionHit ==
    /\ pc = "coll"
    /\ \E r \in BvhRays, i \in BvhIntervals :
          /\ ray' = r
          /\ min_t' = i[1]
          /\ max_t' = i[2]
          /\ coll_hit' = Collection_hit(Collection_new(prims), r, i[1], i[2])
    /\ pc' = "coll_hit"
    /\ UNCHANGED <<prims, window, axes_drawn, world, queries, sphere, outward, hit>>
    /\ UNCHANGED <<box_vars, scatter_vars, render_vars, early_vars>>

CollNext == CollectionHit

CollSpec == CollInit /\ [][CollNext]_vars

\* the hit of the i-th primitive on its own, over the whole interval
ChildHit(i) == Hittable_hit(prims[i], ray, min_t, max_t)

\* a list with its first two elements exchanged, and with its first moved last
SwapFirstTwo(l) == <<l[2], l[1]>> \o SubSeq(l, 3, Len(l))

Rotate(l) == SubSeq(l, 2, Len(l)) \o <<l[1]>>

(***************************************************************************)
(* C13: Collection::hit over spheres (whose hit returns only t strictly    *)
(* inside the interval given) is None exactly when no child hits in        *)
(* (min_t, max_t), and otherwise its t is the least t of the children's    *)
(* hits; the t is the same for every order of the children. The lists of   *)
(* the model are closed under reordering, and exchanging the first two     *)
(* elements and moving the first to the end generate every reordering.     *)
(***************************************************************************)
C13_CollectionClosestHit ==
    pc = "coll_hit" =>
       /\ coll_hit.some <=> \E i \in 1..Len(prims) : ChildHit(i).some
       /\ coll_hit.some =>
             /\ Gt(coll_hit.t, min_t) /\ Lt(coll_hit.t, max_t)
             /\ \E i \in 1..Len(prims) : ChildHit(i).some /\ Eq(ChildHit(i).t, coll_hit.t)
             /\ \A i \in 1..Len(prims) : ChildHit(i).some => Le(coll_hit.t, ChildHit(i).t)
       /\ Len(prims) >= 2 =>
             /\ SameHit(Collection_hit(Collection_new(SwapFirstTwo(prims)), ray, min_t, max_t),
                        coll_hit)
             /\ SameHit(Collection_hit(Collection_new(Rotate(prims)), ray, min_t, max_t),
                        coll_hit)

\* three children are hit, the closest neither the first nor the last
C13_Witness ==
    /\ pc = "coll_hit"
    /\ Len(prims) = 3
    /\ \A i \in 1..3 : ChildHit(i).some
    /\ Lt(ChildHit(2).t, ChildHit(1).t)
    /\ Lt(ChildHit(2).t, ChildHit(3).t)
    /\ Eq(coll_hit.t, ChildHit(2).t)

\* the leaves of a tree, left to right; an Ephemeral counts as a leaf
RECURSIVE Leaves(_)
Leaves(h) ==
    IF h.kind = "BVHNode" THEN Leaves(h.left) \o Leaves(h.right) ELSE <<h>>

\* the elements of a sequence
Elems(l) == {l[i] : i \in 1..Len(l)}

(***************************************************************************)
(* C15: bvh_split_hittables on n primitives returns Ephemeral (no hit, no  *)
(* bounding box) for n = 0, the primitive itself for n = 1, and for n >= 2 *)
(* a BVHNode whose left subtree holds the first floor(n/2) elements of the *)
(* list sorted on the drawn axis and whose right subtree holds the other   *)
(* ceil(n/2); for n >= 1 the leaves are the n primitives, each once, and   *)
(* none is an Ephemeral.                                                   *)
(***************************************************************************)
C15_SplitStructure ==
    /\ (pc = "queried" /\ Len(prims) = 0) => hit = None
    /\ pc = "built" =>
       LET n == Len(prims)
           leaves == Leaves(world)
       IN /\ n = 0 => /\ world = Ephemeral
                      /\ bounding_box(world, window[1], window[2]) = NoBox
          /\ n = 1 => world = prims[1]
          /\ n >= 2 =>
                /\ world.kind = "BVHNode"
                /\ Len(Leaves(world.left)) = n \div 2
                /\ Len(Leaves(world.right)) = n - (n \div 2)
                /\ Elems(Leaves(world.left)) =
                      Elems(SubSeq(sort_by(axes_drawn[1], prims, window[1], window[2]),
                                   1, n \div 2))
                /\ \A l \in Elems(Leaves(world.left)), r \in Elems(Leaves(world.right)) :
                      ~KeyLess(axes_drawn[1], r, l, window[1], window[2])
          /\ n >= 1 =>
                /\ Len(leaves) = n
                /\ Elems(leaves) = Elems(prims)
                /\ \A i \in 1..Len(leaves) : leaves[i] # Ephemeral

\* three primitives, the sort moved the first of them out of the left half
C15_Witness ==
    /\ pc = "built"
    /\ Len(prims) = 3
    /\ world.left.kind = "Sphere"
    /\ world.right.kind = "BVHNode"
    /\ world.left # prims[1]
    /\ Len(Leaves(world)) = 3

(***************************************************************************)
(* BVHNode::hit on one node made by BVHNode::new over two children, each a *)
(* sphere or an Ephemeral, or the second a node over two of them (a node   *)
(* over two Ephemerals caches no box).                                     *)
(***************************************************************************)
NodeLeaves == BvhSpheres \cup {Ephemeral}

NodeInit ==
    /\ prims \in [1..2 -> NodeLeaves] \cup [1..3 -> NodeLeaves]
    /\ world = Ephemeral
    /\ window = <<F(0), F(1)>>
    /\ axes_drawn = <<>>
    /\ coll_hit = None
    /\ queries = <<>>
    /\ pc = "node_new"
    /\ SphereIdle
    /\ BoxIdle /\ ScatterIdle /\ ColorIdle /\ DrawIdle /\ PpmIdle /\ EarlyIdle

\* world = BVHNode::new(prims[1], prims[2], t0, t1), or with a node over
\* prims[2] and prims[3] as the right child
NodeNew ==
    /\ pc = "node_new"
    /\ world' = IF Len(prims) = 2
                THEN BVHNode_new(prims[1], prims[2], window[1], window[2])
                ELSE BVHNode_new(prims[1],
                                 BVHNode_new(prims[2], prims[3], window[1], window[2]),
                                 window[1], window[2])
    /\ pc' = "node"
    /\ UNCHANGED <<prims, window, axes_drawn, coll_hit, queries>>
    /\ UNCHANGED <<ray, sphere, min_t, max_t, outward, hit>>
    /\ UNCHANGED <<box_vars, scatter_vars, render_vars, early_vars>>

\* world.hit(&ray, min_t, max_t)
NodeHit ==
    /\ pc = "node"
    /\ \E r \in BvhRays, i \in BvhIntervals :
          /\ ray' = r
          /\ min_t' = i[1]
          /\ max_t' = i[2]
          /\ hit' = Hittable_hit(world, r, i[1], i[2])
          /\ queries' = BVHNode_hit_queries(
                            world.aabb.some /\ AABB_hit(world.aabb, r, i[1], i[2]),
                            Hittable_hit(world.left, r, i[1], i[2]), i[1], i[2])
    /\ pc' = "node_hit"
    /\ UNCHANGED <<prims, window, axes_drawn, world, coll_hit, sphere, outward>>
    /\ UNCHANGED <<box_vars, scatter_vars, render_vars, early_vars>>

NodeNext == NodeNew \/ NodeHit

NodeSpec == NodeInit /\ [][NodeNext]_vars

\* the node's cached box is present and hit by the ray
NodeBoxHit == world.aabb.some /\ AABB_hit(world.aabb, ray, min_t, max_t)

\* the hits of the left child over (min_t, max_t) and of the right child
\* over (min_t, m)
LeftHit == Hittable_hit(world.left, ray, min_t, max_t)

RightHit(m) == Hittable_hit(world.right, ray, min_t, m)

(***************************************************************************)
(* C16: BVHNode::hit queries no child and returns None when the cached box *)
(* is absent or AABB::hit is false; otherwise it queries the left child    *)
(* with (min_t, max_t), then the right child with max_t replaced by the    *)
(* left hit's t (max_t when the left missed), and returns the right hit if *)
(* any, else the left hit, else None: the closer of the children's hits.   *)
(***************************************************************************)
C16_NodeHitOrder ==
    pc = "node_hit" =>
       IF ~NodeBoxHit
       THEN queries = <<>> /\ hit = None
       ELSE LET m == IF LeftHit.some THEN LeftHit.t ELSE max_t
            IN /\ queries = <<[child |-> "left", min_t |-> min_t, max_t |-> max_t],
                              [child |-> "right", min_t |-> min_t, max_t |-> m]>>
               /\ hit = IF RightHit(m).some THEN RightHit(m)
                        ELSE IF LeftHit.some THEN LeftHit ELSE None
               /\ hit.some <=> (LeftHit.some \/ RightHit(max_t).some)
               /\ (hit.some /\ LeftHit.some) => Le(hit.t, LeftHit.t)
               /\ (hit.some /\ RightHit(max_t).some) => Le(hit.t, RightHit(max_t).t)

\* both children are hit and the right child's hit is the closer
C16_Witness ==
    /\ pc = "node_hit"
    /\ NodeBoxHit
    /\ LeftHit.some
    /\ RightHit(LeftHit.t).some
    /\ hit = RightHit(LeftHit.t)
    /\ Lt(hit.t, LeftHit.t)

\* the box is hit and both children miss
C16_WitnessBoxOnly ==
    /\ pc = "node_hit"
    /\ NodeBoxHit
    /\ Len(queries) = 2
    /\ hit = None

(***************************************************************************)
(* A moving sphere under a BVHNode: Sphere::bounding_box over a window,    *)
(* then the node's hit and the sphere's own hit on one ray.                *)
(***************************************************************************)
MovingSpheres ==
    {Sphere_new_moving(V(0, 0, 0), F(0), V(0, 2, 0), F(1), F(1), 3),
     Sphere_new_moving(V(-1, 0, 1), F(0), V(1, 0, 1), F(1), Frac(1, 2), 3),
     Sphere_new_moving(V(1, 1, 0), F(0), V(-1, 0, 2), F(2), F(1), 3),
     Sphere_new_moving(V(0, 2, 0), F(1), V(0, 0, 0), F(3), F(1), 3),
     Sphere_new_moving(V(0, 0, 0), F(-1), V(2, 2, 2), F(1), Frac(1, 2), 3),
     Sphere_new_moving(V(0, 0, -1), F(0), V(0, 0, -1), F(1), F(2), 3)}

\* t0 <= t1, inside, across and outside the keyframe times
MovingWindows == {<<F(0), F(1)>>, <<F(0), Frac(1, 2)>>, <<Frac(1, 2), Frac(1, 2)>>,
                  <<F(-1), F(2)>>, <<F(1), F(3)>>, <<F(2), F(2)>>, <<F(0), F(0)>>}

MovingTimes == {F(-1), F(0), Frac(1, 4), Frac(1, 2), F(1), Frac(3, 2), F(2), F(3)}

MovingRays == [origin : BvhOrigins, direction : BvhDirections, time : MovingTimes]

MovingInit ==
    /\ sphere \in MovingSpheres
    /\ window \in MovingWindows
    /\ box_a = NoBox
    /\ world = Ephemeral
    /\ hit = None
    /\ coll_hit = None
    /\ pc = "moving"
    /\ ray = [origin |-> V(0, 0, 0), direction |-> V(0, 0, -1), time |-> F(0)]
    /\ min_t = F(0)
    /\ max_t = PInf
    /\ outward = V(0, 0, 0)
    /\ prims = <<>>
    /\ axes_drawn = <<>>
    /\ queries = <<>>
    /\ box_b = NoBox
    /\ box_out = [op |-> "none"]
    /\ ScatterIdle /\ ColorIdle /\ DrawIdle /\ PpmIdle /\ EarlyIdle

\* box_a = sphere.bounding_box(t0, t1), as BVHNode::new asks its children,
\* and world = BVHNode::new(sphere, Ephemeral, t0, t1)
MovingBoundingBox ==
    /\ pc = "moving"
    /\ box_a' = Sphere_bounding_box(sphere, window[1], window[2])
    /\ world' = BVHNode_new(sphere, Ephemeral, window[1], window[2])
    /\ pc' = "moving_box"
    /\ UNCHANGED <<ray, sphere, min_t, max_t, outward, hit>>
    /\ UNCHANGED <<prims, window, axes_drawn, coll_hit, queries, box_b, box_out>>
    /\ UNCHANGED <<scatter_vars, render_vars, early_vars>>

\* world.hit(&ray, min_t, max_t) and sphere.hit(&ray, min_t, max_t)
MovingHit ==
    /\ pc = "moving_box"
    /\ \E r \in MovingRays, i \in BvhIntervals :
          /\ ray' = r
          /\ min_t' = i[1]
          /\ max_t' = i[2]
          /\ hit' = Hittable_hit(world, r, i[1], i[2])
          /\ coll_hit' = Sphere_hit(sphere, r, i[1], i[2])
    /\ pc' = "moving_hit"
    /\ UNCHANGED <<prims, window, axes_drawn, world, queries, sphere, outward>>
    /\ UNCHANGED <<box_vars, scatter_vars, render_vars, early_vars>>

MovingNext == MovingBoundingBox \/ MovingHit

MovingSpec == MovingInit /\ [][MovingNext]_vars

\* on every axis, box b contains [center(time) - radius, center(time) + radius]
ContainsExtent(b, s, time) ==
    \A a \in 1..3 :
        /\ Le(b.min[a], Sub(Sphere_center(s, time)[a], s.radius))
        /\ Le(Add(Sphere_center(s, time)[a], s.radius), b.max[a])

\* the sphere is at neither end of its path over the window at this time
StrictlyBetween(s, time) ==
    \E a \in 1..3 :
        \/ Lt(Sphere_center(s, window[1])[a], Sphere_center(s, time)[a])
           /\ Lt(Sphere_center(s, time)[a], Sphere_center(s, window[2])[a])
        \/ Lt(Sphere_center(s, window[2])[a], Sphere_center(s, time)[a])
           /\ Lt(Sphere_center(s, time)[a], Sphere_center(s, window[1])[a])

(***************************************************************************)
(* C22: for a sphere built by new_moving with time0 < time1 and a positive *)
(* radius, and every window t0 <= t1, the box bounding_box(t0, t1) returns *)
(* contains [center(t) - radius, center(t) + radius] on every axis for     *)
(* every time t in [t0, t1]; and a node built over the window whose child  *)
(* is the sphere returns the sphere's hit for every ray whose time is in   *)
(* the window.                                                             *)
(***************************************************************************)
C22_MovingSphereBounded ==
    /\ pc \in {"moving_box", "moving_hit"} =>
          /\ box_a.some
          /\ \A time \in MovingTimes : InWindow(time) => ContainsExtent(box_a, sphere, time)
    /\ (pc = "moving_hit" /\ InWindow(ray.time)) =>
          /\ ContainsExtent(world.aabb, sphere, ray.time)
          /\ coll_hit.some => (hit.some /\ Eq(hit.t, coll_hit.t))

\* a ray at a time strictly inside the window hits the sphere while it is
\* between the places it has at the ends of the window
C22_Witness ==
    /\ pc = "moving_hit"
    /\ Lt(window[1], ray.time) /\ Lt(ray.time, window[2])
    /\ StrictlyBetween(sphere, ray.time)
    /\ coll_hit.some
    /\ hit.some

\* a ray that runs in a face of the box, parallel to two axes, touches the
\* sphere and is not culled
C22_WitnessGrazing ==
    /\ pc = "moving_hit"
    /\ InWindow(ray.time)
    /\ \E a \in 1..3 : ray.direction[a] = F(0) /\ ray.origin[a] = box_a.max[a]
    /\ coll_hit.some
    /\ hit.some

(***************************************************************************)
(* surrounding_box on two boxes, and AABB::hit on a box and a ray, on the  *)
(* box and ray with their axes permuted, and on the box and ray translated.*)
(***************************************************************************)
Boxes == {AABB_new(V(-1, -1, -1), V(1, 1, 1)),
          AABB_new(V(0, 0, -2), V(2, 1, 0)),
          AABB_new(<<Frac(-1, 2), Frac(-1, 2), Frac(-3, 2)>>,
                   <<Frac(1, 2), Frac(1, 2), Frac(-1, 2)>>),
          AABB_new(V(1, 1, 1), V(1, 1, 1)),
          AABB_new(V(-3, 0, 1), V(-1, 4, 2)),
          AABB_new(V(1, 0, 0), V(0, 1, 1))}

BoxOrigins == {V(0, 0, 3), V(-2, 1, 0), V(0, 0, 0)}

BoxDirections == {V(1, 1, -1), V(1, -2, -1), V(-1, 1, 2), V(2, 1, 1),
                  V(0, 0, -1), V(1, 0, -1)}

BoxRays == [origin : BoxOrigins, direction : BoxDirections, time : {F(0)}]

BoxIntervals == {<<Frac(1, 1000), PInf>>, <<F(0), F(2)>>, <<F(2), F(3)>>}

\* the orders of the three axes
AxisOrders == {p \in [1..3 -> 1..3] : \A i, j \in 1..3 : p[i] = p[j] => i = j}

Translations == {V(1, 0, 0), V(-2, 3, 1), <<Frac(1, 2), F(0), Frac(-5, 2)>>}

PermuteVec(v, p) == <<v[p[1]], v[p[2]], v[p[3]]>>

PermuteBox(b, p) == AABB_new(PermuteVec(b.min, p), PermuteVec(b.max, p))

PermuteRay(r, p) ==
    [origin |-> PermuteVec(r.origin, p), direction |-> PermuteVec(r.direction, p),
     time |-> r.time]

TranslateBox(b, v) == AABB_new(Vec3_add(b.min, v), Vec3_add(b.max, v))

TranslateRay(r, v) ==
    [origin |-> Vec3_add(r.origin, v), direction |-> r.direction, time |-> r.time]

BoxInit ==
    /\ box_a \in Boxes
    /\ box_b \in Boxes
    /\ box_out = [op |-> "none"]
    /\ ray \in BoxRays
    /\ \E i \in BoxIntervals : min_t = i[1] /\ max_t = i[2]
    /\ sphere = Sphere_new(V(0, 0, 0), F(1), 1)
    /\ outward = V(0, 0, 0)
    /\ hit = None
    /\ pc = "box"
    /\ BvhIdle /\ ScatterIdle /\ ColorIdle /\ DrawIdle /\ PpmIdle /\ EarlyIdle

\* surrounding_box(&box_a, &box_b), then the result with box_b again, and
\* surrounding_box(&box_a, &box_a)
SurroundingBox ==
    /\ pc = "box"
    /\ box_out' = [op |-> "surrounding_box",
                   ab |-> surrounding_box(box_a, box_b),
                   ab_b |-> surrounding_box(surrounding_box(box_a, box_b), box_b),
                   aa |-> surrounding_box(box_a, box_a)]
    /\ pc' = "surrounded"
    /\ UNCHANGED <<box_a, box_b, ray, sphere, min_t, max_t, outward, hit>>
    /\ UNCHANGED <<bvh_vars, scatter_vars, render_vars, early_vars>>

\* box_a.hit(&ray, min_t, max_t), and the same call with the axes of box
\* and ray reordered by p, and with box and ray origin moved by v
BoxHit ==
    /\ pc = "box"
    /\ \E p \in AxisOrders, v \in Translations :
          box_out' = [op |-> "hit", p |-> p, v |-> v,
                      plain |-> AABB_hit(box_a, ray, min_t, max_t),
                      permuted |-> AABB_hit(PermuteBox(box_a, p), PermuteRay(ray, p),
                                            min_t, max_t),
                      translated |-> AABB_hit(TranslateBox(box_a, v), TranslateRay(ray, v),
                                              min_t, max_t)]
    /\ pc' = "boxhit"
    /\ UNCHANGED <<box_a, box_b, ray, sphere, min_t, max_t, outward, hit>>
    /\ UNCHANGED <<bvh_vars, scatter_vars, render_vars, early_vars>>

BoxNext == SurroundingBox \/ BoxHit

BoxSpec == BoxInit /\ [][BoxNext]_vars

\* every component of a is <= the component of b
VecLe(a, b) == \A i \in 1..3 : Le(a[i], b[i])

(***************************************************************************)
(* C5: for all boxes a and b, surrounding_box(a, b) contains both: its min *)
(* is component-wise <= both mins and its max component-wise >= both       *)
(* maxes; and it is idempotent:                                            *)
(* surrounding_box(surrounding_box(a, b), b) = surrounding_box(a, b) and   *)
(* surrounding_box(a, a) = a.                                              *)
(***************************************************************************)
C5_SurroundingBoxContains ==
    pc = "surrounded" =>
        /\ VecLe(box_out.ab.min, box_a.min) /\ VecLe(box_out.ab.min, box_b.min)
        /\ VecLe(box_a.max, box_out.ab.max) /\ VecLe(box_b.max, box_out.ab.max)
        /\ box_out.ab_b = box_out.ab
        /\ box_out.aa = box_a

\* two boxes neither of which contains the other: the result is neither
C5_Witness ==
    /\ pc = "surrounded"
    /\ box_out.ab # box_a /\ box_out.ab # box_b
    /\ \E i \in 1..3 : Lt(box_a.min[i], box_b.min[i])
    /\ \E i \in 1..3 : Lt(box_b.min[i], box_a.min[i])
    /\ box_out.ab_b = box_out.ab

\* every component of the ray's direction is non-zero
NonZeroDirection == \A i \in 1..3 : ~Eq(ray.direction[i], F(0))

(***************************************************************************)
(* C6: for every ray whose direction has three non-zero components,        *)
(* AABB::hit returns the same answer when the three axes of box and ray    *)
(* are reordered by the same permutation, and when box and ray origin are  *)
(* translated by the same vector.                                          *)
(***************************************************************************)
C6_BoxHitSymmetric ==
    (pc = "boxhit" /\ NonZeroDirection) =>
        /\ box_out.permuted = box_out.plain
        /\ box_out.translated = box_out.plain

\* a ray that passes the x and y slabs of the box and misses its z slab,
\* with the z axis moved to the front
C6_Witness ==
    /\ pc = "boxhit" /\ NonZeroDirection
    /\ box_out.p[1] = 3
    /\ AABB_hit_axis(box_a, ray, min_t, max_t, 1)
    /\ AABB_hit_axis(box_a, ray, min_t, max_t, 2)
    /\ ~AABB_hit_axis(box_a, ray, min_t, max_t, 3)
    /\ ~box_out.plain /\ ~box_out.permuted /\ ~box_out.translated

\* the slab interval [t0, t1] of box_a and ray on axis a, t0 the entry
SlabInterval(a) ==
    LET inv_d == Div(F(1), ray.direction[a])
        u0 == Mul(Sub(box_a.min[a], ray.origin[a]), inv_d)
        u1 == Mul(Sub(box_a.max[a], ray.origin[a]), inv_d)
    IN IF Lt(inv_d, F(0)) THEN <<u1, u0>> ELSE <<u0, u1>>

\* the interval iv intersected with the slab interval of axis a
Narrowed(iv, a) ==
    <<IF Gt(SlabInterval(a)[1], iv[1]) THEN SlabInterval(a)[1] ELSE iv[1],
      IF Lt(SlabInterval(a)[2], iv[2]) THEN SlabInterval(a)[2] ELSE iv[2]>>

\* [min_t, max_t] intersected with the slab intervals of all three axes
RunningInterval == Narrowed(Narrowed(Narrowed(<<min_t, max_t>>, 1), 2), 3)

(***************************************************************************)
(* C14: AABB::hit returns true exactly when the intersection of            *)
(* [tmin, tmax] with the slab intervals of all three axes is non-empty     *)
(* (lower bound < upper bound); so it returns false for a ray whose slab   *)
(* intervals each overlap [tmin, tmax] but share no common t.              *)
(***************************************************************************)
C14_BoxHitRunningInterval ==
    (pc = "boxhit" /\ NonZeroDirection)
    => (box_out.plain <=> Lt(RunningInterval[1], RunningInterval[2]))

(***************************************************************************)
(* Material::scatter on a hit made by Hit::new.                            *)
(***************************************************************************)
ScatterDirections == {V(0, 0, -1), V(1, 0, -1), V(1, 1, -1), V(3, 0, -4), V(1, 0, 0),
                      V(0, 0, 2)}

AxisNormals == {V(0, 0, 1), V(0, 0, -1), V(1, 0, 0), V(0, -1, 0)}

TiltedNormals == {<<Frac(3, 5), F(0), Frac(4, 5)>>, <<F(0), Frac(-3, 5), Frac(4, 5)>>}

Materials == {Lambertian_new(<<Frac(1, 2), Frac(1, 2), Frac(1, 2)>>),
              Metal_new(<<Frac(4, 5), Frac(3, 5), Frac(1, 5)>>, F(0)),
              Metal_new(<<Frac(4, 5), Frac(4, 5), Frac(4, 5)>>, Frac(1, 2)),
              Metal_new(<<Frac(7, 10), Frac(3, 5), Frac(1, 2)>>, F(2)),
              Dielectric_new(Frac(3, 2)),
              Dielectric_new(F(1))}

\* samples of UnitBall
Balls == {V(0, 0, 0), V(0, 0, -1), <<Frac(1, 2), Frac(1, 2), F(0)>>,
          <<F(0), Frac(-3, 5), Frac(-4, 5)>>, <<Frac(-1, 2), F(0), Frac(-1, 2)>>}

\* samples of Uniform::new(0.0, 1.0)
Uniforms == {F(0), Frac(1, 20), Frac(1, 2), Frac(99, 100)}

\* a refracted direction is followed exactly for axis-aligned normals only:
\* for a tilted normal its components leave the quadratic fields of f64
ScatterInit ==
    /\ \E d \in ScatterDirections, n \in AxisNormals \cup TiltedNormals, m \in Materials :
          /\ m.kind = "Dielectric" => n \in AxisNormals
          /\ ray = Ray_new_at(V(0, 0, 3), d, Frac(1, 2))
          /\ outward = n
          /\ hit = Hit_new(Ray_at(ray, F(1)), n, F(1), ray, m)
    /\ sample \in [ball : Balls, uniform : Uniforms]
    /\ scatter = NoScatter
    /\ sphere = Sphere_new(V(0, 0, 0), F(1), 1)
    /\ min_t = Frac(1, 1000)
    /\ max_t = PInf
    /\ pc = "scatter"
    /\ BvhIdle /\ BoxIdle /\ ColorIdle /\ DrawIdle /\ PpmIdle /\ EarlyIdle

\* hit.material.scatter(&ray, &hit, rng)
Scatter ==
    /\ pc = "scatter"
    /\ scatter' = Material_scatter(hit.material, ray, hit, sample)
    /\ pc' = "scattered"
    /\ UNCHANGED <<ray, sphere, min_t, max_t, outward, hit, sample>>
    /\ UNCHANGED <<bvh_vars, box_vars, render_vars, early_vars>>

ScatterNext == Scatter

ScatterSpec == ScatterInit /\ [][ScatterNext]_vars

\* dot(reflected + fuzz * random_ball_sample, hit.normal) for a Metal hit
FuzzedDot ==
    dot(Vec3_add(reflect(unit(ray.direction), hit.normal),
                 Vec3_scale(hit.material.fuzz, sample.ball)),
        hit.normal)

(***************************************************************************)
(* C7: for every incoming ray, hit and random draw, Lambertian::scatter    *)
(* and Dielectric::scatter return Some, in the reflect and in the refract  *)
(* branch of Dielectric; Metal::scatter returns None exactly when          *)
(* dot(reflected + fuzz * random_ball_sample, hit.normal) <= 0, and Some   *)
(* with attenuation = albedo otherwise.                                    *)
(***************************************************************************)
C7_ScatterSome ==
    pc = "scattered" =>
        /\ hit.material.kind \in {"Lambertian", "Dielectric"} => scatter.some
        /\ hit.material.kind = "Metal" =>
              /\ ~scatter.some <=> Le(FuzzedDot, F(0))
              /\ scatter.some => scatter.attenuation = hit.material.albedo

\* a Metal whose fuzz turns the reflection into the surface: None
C7_Witness ==
    /\ pc = "scattered"
    /\ hit.material.kind = "Metal"
    /\ Gt(dot(reflect(unit(ray.direction), hit.normal), hit.normal), F(0))
    /\ Lt(FuzzedDot, F(0))
    /\ ~scatter.some

\* a Metal whose reflection grazes the surface: the dot product is 0, None
C7_WitnessGrazing ==
    /\ pc = "scattered"
    /\ hit.material.kind = "Metal"
    /\ Eq(FuzzedDot, F(0))
    /\ ~scatter.some

\* a Dielectric that refracts, away from the normal
C7_WitnessRefract ==
    /\ pc = "scattered"
    /\ hit.material.kind = "Dielectric"
    /\ ~Dielectric_reflects(hit.material, ray, hit, sample)
    /\ scatter.some
    /\ Lt(dot(scatter.scattered.direction, hit.normal), F(0))
    /\ ~Eq(dot(unit(ray.direction), hit.normal), F(-1))

\* a Dielectric that reflects because of total internal reflection
C7_WitnessReflect ==
    /\ pc = "scattered"
    /\ hit.material.kind = "Dielectric"
    /\ ~hit.front_face
    /\ Eq(sample.uniform, Frac(99, 100))
    /\ Dielectric_reflects(hit.material, ray, hit, sample)
    /\ scatter.some
    /\ Gt(dot(scatter.scattered.direction, hit.normal), F(0))

(***************************************************************************)
(* ray_color(rng, &ray, world, depth0): the running call, and the calls    *)
(* waiting for it in frames.                                               *)
(***************************************************************************)
MaxDepth == 3

ColorDirections == {V(0, 1, 0), V(0, -1, 0), V(3, 4, 0), V(1, 0, -1)}

ColorRays == {Ray_new_at(V(0, 0, 0), d, F(0)) : d \in ColorDirections}

Attenuations == {<<Frac(1, 2), Frac(1, 2), Frac(1, 2)>>, <<Frac(4, 5), Frac(3, 5), Frac(1, 5)>>}

\* background(r) for the rays of the model, computed once
Backgrounds == [r \in ColorRays |-> background(r)]

\* what world.hit(ray, 0.001, INFINITY) can return, as far as ray_color reads it
WorldHits == {None, [some |-> TRUE]}

\* what hit.material.scatter(ray, &hit, rng) can return
Scatters == {NoScatter} \cup {SomeScatter(r, a) : r \in ColorRays, a \in Attenuations}

ColorInit ==
    /\ depth0 \in 0..MaxDepth
    /\ depth = depth0
    /\ ray \in ColorRays
    /\ frames = <<>>
    /\ hit_tests = 0
    /\ scatters = 0
    /\ color = V(0, 0, 0)
    /\ path = <<>>
    /\ terminal = None
    /\ pc = "color_call"
    /\ sphere = Sphere_new(V(0, 0, 0), F(1), 1)
    /\ min_t = Frac(1, 1000)
    /\ max_t = PInf
    /\ outward = V(0, 0, 0)
    /\ hit = None
    /\ BvhIdle /\ BoxIdle /\ ScatterIdle /\ DrawIdle /\ PpmIdle /\ EarlyIdle

\* one call of ray_color, up to its return or its recursive call
RayColorCall ==
    /\ pc = "color_call"
    /\ \E world_hit \in WorldHits, sc \in Scatters :
          LET branch == ray_color_branch(depth, world_hit, sc)
          IN /\ hit_tests' = IF branch = "exhausted" THEN hit_tests ELSE hit_tests + 1
             /\ scatters' = IF branch \in {"scattered", "absorbed"} THEN scatters + 1
                            ELSE scatters
             /\ IF branch = "scattered"
                THEN /\ frames' = Append(frames, [ray |-> ray, attenuation |-> sc.attenuation])
                     /\ ray' = sc.scattered
                     /\ depth' = recursion_depth(depth)
                     /\ path' = Append(path, sc.attenuation)
                     /\ UNCHANGED <<color, pc, terminal>>
                ELSE /\ color' = IF branch = "background" THEN Backgrounds[ray]
                                 ELSE V(0, 0, 0)
                     /\ terminal' = [some |-> TRUE, depth |-> depth, ray |-> ray,
                                     world_hit |-> world_hit.some,
                                     scatter |-> world_hit.some /\ sc.some,
                                     value |-> color']
                     /\ pc' = "color_return"
                     /\ UNCHANGED <<frames, ray, depth, path>>
    /\ UNCHANGED <<depth0, sphere, min_t, max_t, outward, hit>>
    /\ UNCHANGED <<bvh_vars, box_vars, scatter_vars, draw_vars, ppm_vars, early_vars>>

\* the recursive call returns to the call waiting for it:
\* Pixel(scatter.attenuation * ray_color(..).0)
RayColorReturn ==
    /\ pc = "color_return"
    /\ frames # <<>>
    /\ color' = Vec3_mul(frames[Len(frames)].attenuation, color)
    /\ ray' = frames[Len(frames)].ray
    /\ depth' = depth + 1
    /\ frames' = SubSeq(frames, 1, Len(frames) - 1)
    /\ UNCHANGED <<depth0, hit_tests, scatters, pc, path, terminal>>
    /\ UNCHANGED <<sphere, min_t, max_t, outward, hit>>
    /\ UNCHANGED <<bvh_vars, box_vars, scatter_vars, draw_vars, ppm_vars, early_vars>>

ColorNext == RayColorCall \/ RayColorReturn

ColorSpec == ColorInit /\ [][ColorNext]_vars

\* the outermost call has returned
ColorReturned == pc = "color_return" /\ frames = <<>>

(***************************************************************************)
(* C8: ray_color called with depth == 0 returns exactly black (0,0,0),     *)
(* for every ray and every world, without performing any scene hit test    *)
(* or material scatter.                                                    *)
(***************************************************************************)
C8_DepthZeroBlack ==
    (pc \in {"color_call", "color_return"} /\ depth0 = 0) =>
        /\ hit_tests = 0
        /\ scatters = 0
        /\ frames = <<>>
        /\ pc = "color_return" => color = V(0, 0, 0)

\* a call with depth 0 has returned black for a ray that looks at the sky
C8_Witness ==
    /\ ColorReturned
    /\ depth0 = 0
    /\ color = V(0, 0, 0)
    /\ hit_tests = 0 /\ scatters = 0
    /\ background(ray) # V(0, 0, 0)

\* ray_color runs to its end: a call or a return that can be made is made
ColorFairSpec == ColorSpec /\ WF_vars(ColorNext)

\* the counts of one outermost call of ray_color with depth = depth0
ColorBounded ==
    pc \in {"color_call", "color_return"} =>
       /\ hit_tests <= depth0
       /\ Len(frames) <= depth0
       /\ depth >= 0
       /\ depth = depth0 - Len(frames)

(***************************************************************************)
(* C17: ray_color terminates for every scene and every sequence of scatter *)
(* outcomes: a call with depth = d makes at most d scene hit tests and at  *)
(* most d nested recursive calls, the depth falls by exactly 1 on each     *)
(* recursion and never below 0. draw makes width*height*samples_per_pixel  *)
(* such calls, each with depth MAX_DEPTH.                                  *)
(***************************************************************************)
C17_RayColorTerminates == []ColorBounded /\ <>ColorReturned

\* a call of the greatest depth that recursed until the depth was exhausted
C17_Witness ==
    /\ pc = "color_return"
    /\ depth0 = MaxDepth
    /\ Len(frames) = depth0
    /\ hit_tests = depth0
    /\ depth = 0

\* the colour c multiplied, component by component, by the attenuations
\* as[k], .., as[Len(as)], the last first
RECURSIVE Attenuated(_, _, _)
Attenuated(as, k, c) ==
    IF k > Len(as) THEN c
    ELSE LET inner == Attenuated(as, k + 1, c)
         IN <<Mul(as[k][1], inner[1]), Mul(as[k][2], inner[2]), Mul(as[k][3], inner[3])>>

\* (1 - t)*(1, 1, 1) + t*(0.5, 0.7, 1.0) with t = 0.5*(y + 1), y the second
\* component of the normalised direction of r
Gradient(r) ==
    LET y == Div(r.direction[2], Sqrt(length_squared(r.direction)))
        t == Mul(Frac(1, 2), Add(y, F(1)))
    IN <<Add(Sub(F(1), t), Mul(t, Frac(1, 2))),
         Add(Sub(F(1), t), Mul(t, Frac(7, 10))),
         Add(Sub(F(1), t), Mul(t, F(1)))>>

(***************************************************************************)
(* C18: a call of ray_color with depth > 0 returns black when the scene is *)
(* hit and scatter returns None, the background gradient when the scene is *)
(* missed, and the component-wise product of the attenuation and the       *)
(* recursive call's colour when scatter returns Some; so the colour of a   *)
(* path is the product of the attenuations of its bounces and its terminal *)
(* value: the background, or black on absorption or depth exhaustion.      *)
(***************************************************************************)
C18_PathColour ==
    (ColorReturned /\ depth0 > 0) =>
       /\ color = Attenuated(path, 1, terminal.value)
       /\ terminal.depth = 0 => terminal.value = V(0, 0, 0)
       /\ (terminal.depth > 0 /\ terminal.world_hit) =>
             (~terminal.scatter /\ terminal.value = V(0, 0, 0))
       /\ (terminal.depth > 0 /\ ~terminal.world_hit) =>
             terminal.value = Gradient(terminal.ray)

\* two bounces of different attenuations, then a miss
C18_Witness ==
    /\ ColorReturned
    /\ Len(path) = 2
    /\ path[1] # path[2]
    /\ ~terminal.world_hit
    /\ color # V(0, 0, 0)
    /\ color # terminal.value

\* a bounce, then the material absorbs
C18_WitnessAbsorbed ==
    /\ ColorReturned
    /\ Len(path) = 1
    /\ terminal.depth > 0
    /\ terminal.world_hit
    /\ color = V(0, 0, 0)

(***************************************************************************)
(* tracer.rs: ray_color on one ray from the origin.                        *)
(***************************************************************************)
TracerDirections ==
    {<<F(x), F(y), F(z)>> : x \in -2..2, y \in -2..2, z \in -1..1} \ {V(0, 0, 0)}

TracerInit ==
    /\ ray \in {Ray_new_at(V(0, 0, 0), d, F(0)) : d \in TracerDirections}
    /\ sphere = Sphere_new(V(0, 0, 0), F(1), 1)
    /\ min_t = F(0)
    /\ max_t = PInf
    /\ outward = V(0, 0, 0)
    /\ hit = None
    /\ pc = "trace"
    /\ BvhIdle /\ BoxIdle /\ ScatterIdle /\ ColorIdle /\ DrawIdle /\ PpmIdle /\ EarlyIdle

\* ray_color(&ray)
TracerRayColor ==
    /\ pc = "trace"
    /\ color' = tracer_ray_color(ray)
    /\ pc' = "traced"
    /\ UNCHANGED <<depth0, depth, frames, hit_tests, scatters, path, terminal>>
    /\ UNCHANGED <<ray, sphere, min_t, max_t, outward, hit>>
    /\ UNCHANGED <<bvh_vars, box_vars, scatter_vars, draw_vars, ppm_vars, early_vars>>

TracerNext == TracerRayColor

TracerSpec == TracerInit /\ [][TracerNext]_vars

(***************************************************************************)
(* C20: for every ray of non-zero direction the ray_color of tracer.rs is  *)
(* (1 - t)*(1, 1, 1) + t*(0.5, 0.7, 1.0) with t = 0.5*(unit_y + 1), unit_y *)
(* the y of the normalised direction; so every channel is in [0, 1].       *)
(***************************************************************************)
C20_TracerGradient ==
    pc = "traced" =>
       /\ color = Gradient(ray)
       /\ \A i \in 1..3 : Le(F(0), color[i]) /\ Le(color[i], F(1))

(***************************************************************************)
(* draw(width, height, camera, world): one task per scanline, completing   *)
(* in any order, then the rows copied into the buffer.                     *)
(***************************************************************************)
MaxWidth == 2

MaxHeight == 3

\* the colour sums of two scenes: no two scanlines have the same bytes
GradientScene(i, j) == V(25 * (i + 1), (j + 1) * (j + 1), 100)

BrightScene(i, j) == V(50, 30 * j + 10 * i, 400)

Scenes(w, h) ==
    {[x \in (0..(w - 1)) \X (0..(h - 1)) |-> GradientScene(x[1], x[2])],
     [x \in (0..(w - 1)) \X (0..(h - 1)) |-> BrightScene(x[1], x[2])]}

DrawInit ==
    /\ width \in 0..MaxWidth
    /\ height \in 0..MaxHeight
    /\ image \in Scenes(width, height)
    /\ rows = [k \in 1..height |-> <<>>]
    /\ completed = <<>>
    /\ output_buffer = <<>>
    /\ pc = "draw_rows"
    /\ SphereIdle
    /\ BvhIdle /\ BoxIdle /\ ScatterIdle /\ ColorIdle /\ PpmIdle /\ EarlyIdle

\* the task of the k-th item of the reversed range completes:
\* collect_into_vec puts the row it computed in place k of rows
RowTask ==
    /\ pc = "draw_rows"
    /\ \E k \in 0..(height - 1) :
          /\ \A n \in 1..Len(completed) : completed[n] # rev(height, k)
          /\ rows' = [rows EXCEPT ![k + 1] = row_pixels(image, width, rev(height, k))]
          /\ completed' = Append(completed, rev(height, k))
    /\ UNCHANGED <<width, height, image, output_buffer, pc>>
    /\ UNCHANGED <<ray, sphere, min_t, max_t, outward, hit>>
    /\ UNCHANGED <<bvh_vars, box_vars, scatter_vars, color_vars, ppm_vars, early_vars>>

\* every task has completed: the rows are copied into output_buffer
CollectRows ==
    /\ pc = "draw_rows"
    /\ Len(completed) = height
    /\ output_buffer' = extend_from_rows(<<>>, rows, 1)
    /\ pc' = "drawn"
    /\ UNCHANGED <<width, height, image, rows, completed>>
    /\ UNCHANGED <<ray, sphere, min_t, max_t, outward, hit>>
    /\ UNCHANGED <<bvh_vars, box_vars, scatter_vars, color_vars, ppm_vars, early_vars>>

DrawNext == RowTask \/ CollectRows

DrawSpec == DrawInit /\ [][DrawNext]_vars

\* the k-th block of width*4 bytes of the buffer, k from 0
Block(k) == SubSeq(output_buffer, k * width * 4 + 1, (k + 1) * width * 4)

(***************************************************************************)
(* C9: for every width and height and every completion order of the        *)
(* per-row tasks, the buffer draw returns has exactly width*height*4       *)
(* bytes and its k-th block of width*4 bytes is the row computed by the    *)
(* task of scanline j = height-1-k: every scanline appears exactly once,   *)
(* top scanline first, whichever task finishes first.                      *)
(***************************************************************************)
C9_RowsInScanlineOrder ==
    pc = "drawn" =>
        /\ Len(output_buffer) = width * height * 4
        /\ \A k \in 0..(height - 1) : Block(k) = row_pixels(image, width, height - 1 - k)

\* the task of the bottom scanline 0 finished first and the task of the top
\* scanline last; the bottom row is the last block of the buffer
C9_Witness ==
    /\ pc = "drawn"
    /\ width = MaxWidth /\ height = MaxHeight
    /\ completed[1] = 0
    /\ completed[height] = height - 1
    /\ Block(height - 1) = row_pixels(image, width, 0)
    /\ Block(0) = row_pixels(image, width, height - 1)
    /\ Block(0) # Block(height - 1)

(***************************************************************************)
(* ppm::write(&canvas, &mut write) on a writer that does not fail.         *)
(***************************************************************************)
MaxCanvasSide == 2

Orange == V(255, 128, 0)

UnitOrange == <<F(1), Frac(1, 2), F(0)>>

PpmColours == {Orange, UnitOrange, <<Frac(1, 4), Frac(-1, 2), Frac(2, 5)>>}

Canvases ==
    UNION {{[width |-> w, height |-> h, pixels |-> px] : px \in [1..h -> [1..w -> PpmColours]]} :
           w \in 0..MaxCanvasSide, h \in 0..MaxCanvasSide}

PpmInit ==
    /\ canvas \in Canvases
    /\ written = ""
    /\ pc = "ppm"
    /\ SphereIdle
    /\ BvhIdle /\ BoxIdle /\ ScatterIdle /\ ColorIdle /\ DrawIdle /\ EarlyIdle

\* ppm::write(&canvas, &mut write)
PpmWrite ==
    /\ pc = "ppm"
    /\ written' = ppm_write(canvas)
    /\ pc' = "ppm_written"
    /\ UNCHANGED <<canvas, ray, sphere, min_t, max_t, outward, hit>>
    /\ UNCHANGED <<bvh_vars, box_vars, scatter_vars, color_vars, draw_vars, early_vars>>

PpmNext == PpmWrite

PpmSpec == PpmInit /\ [][PpmNext]_vars

\* a channel p/q as a value of 0..255: the whole part of 255.99 * p/q, at
\* least 0 and at most 255
Channel(x) ==
    IF x.p < 0 THEN 0
    ELSE IF 25599 * x.p >= 25500 * x.q THEN 255
    ELSE (25599 * x.p) \div (100 * x.q)

\* the line of the n-th pixel written, n from 0: row H-1 first, columns upwards
PixelLine(n) ==
    LET p == canvas.pixels[canvas.height - (n \div canvas.width)][(n % canvas.width) + 1]
    IN ToString(Channel(p[1])) \o " " \o ToString(Channel(p[2])) \o " "
           \o ToString(Channel(p[3])) \o "\n"

RECURSIVE PixelLines(_)
PixelLines(n) == IF n = 0 THEN "" ELSE PixelLines(n - 1) \o PixelLine(n - 1)

\* the header and the W*H lines
PpmText ==
    "P3\n" \o ToString(canvas.width) \o " " \o ToString(canvas.height) \o "\n255\n"
        \o PixelLines(canvas.width * canvas.height)

IsOneByOne(c) == canvas.width = 1 /\ canvas.height = 1 /\ canvas.pixels[1][1] = c

MaxGridSide == 2

GridPixels == {[r |-> 255, g |-> 0, b |-> 0], [r |-> 1, g |-> 2, b |-> 3]}

CanvasInit ==
    /\ \E h \in 1..MaxGridSide, w \in 1..MaxGridSide : grid = canvas_Canvas_new(h, w)
    /\ grid_before = grid
    /\ grid_call = None
    /\ pc = "canvas"
    /\ DataIdle /\ CrossIdle
    /\ SphereIdle
    /\ BvhIdle /\ BoxIdle /\ ScatterIdle /\ ColorIdle /\ DrawIdle /\ PpmIdle

\* *grid.at_mut(x, y) = p
CanvasAtMut ==
    /\ pc = "canvas"
    /\ \E x \in 0..(MaxGridSide - 1), y \in 0..(MaxGridSide - 1), p \in GridPixels :
          /\ grid_before' = grid
          /\ IF canvas_in_bounds(grid, x, y)
             THEN /\ grid' = canvas_at_mut(grid, x, y, p)
                  /\ grid_call' = [op |-> "at_mut", x |-> x, y |-> y, pixel |-> p,
                                   panicked |-> FALSE]
                  /\ pc' = "canvas"
             ELSE /\ grid' = grid
                  /\ grid_call' = [op |-> "at_mut", x |-> x, y |-> y, pixel |-> p,
                                   panicked |-> TRUE]
                  /\ pc' = "canvas_panic"
    /\ UNCHANGED <<ray, sphere, min_t, max_t, outward, hit>>
    /\ UNCHANGED <<bvh_vars, box_vars, scatter_vars, render_vars, data_vars, cross_vars>>

\* grid.at(x, y)
CanvasAt ==
    /\ pc = "canvas"
    /\ \E x \in 0..(MaxGridSide - 1), y \in 0..(MaxGridSide - 1) :
          /\ grid_before' = grid
          /\ grid' = grid
          /\ IF canvas_in_bounds(grid, x, y)
             THEN /\ grid_call' = [op |-> "at", x |-> x, y |-> y,
                                   pixel |-> canvas_at(grid, x, y), panicked |-> FALSE]
                  /\ pc' = "canvas"
             ELSE /\ grid_call' = [op |-> "at", x |-> x, y |-> y,
                                   pixel |-> canvas_Pixel_new, panicked |-> TRUE]
                  /\ pc' = "canvas_panic"
    /\ UNCHANGED <<ray, sphere, min_t, max_t, outward, hit>>
    /\ UNCHANGED <<bvh_vars, box_vars, scatter_vars, render_vars, data_vars, cross_vars>>

CanvasNext == CanvasAtMut \/ CanvasAt

CanvasSpec == CanvasInit /\ [][CanvasNext]_vars

(***************************************************************************)
(* C11: on a canvas built by Canvas::new(height, width), every at(x, y)    *)
(* and at_mut(x, y) with 0 <= x < width and 0 <= y < height addresses a    *)
(* pixel without an out-of-bounds failure; after a write through           *)
(* at_mut(x, y), at(x, y) is the written pixel and every other pixel is    *)
(* as it was.                                                              *)
(***************************************************************************)
C11_CanvasAddressing ==
    (pc \in {"canvas", "canvas_panic"} /\ grid_call # None
        /\ grid_call.x < grid.width /\ grid_call.y < grid.height)
    => /\ ~grid_call.panicked
       /\ grid_call.op = "at_mut" =>
             /\ canvas_at(grid, grid_call.x, grid_call.y) = grid_call.pixel
             /\ \A i \in 1..Len(grid.pixels) : \A j \in 1..Len(grid.pixels[i]) :
                   <<i, j>> # <<grid_call.x + 1, grid_call.y + 1>>
                   => grid.pixels[i][j] = grid_before.pixels[i][j]

(***************************************************************************)
(* data.rs: a canvas built by Canvas::new, pixels written through the      *)
(* setters of Pixel, then rgba_bytes.                                      *)
(***************************************************************************)
MaxDataSide == 2

DataColours == {<<F(1), Frac(1, 2), F(0)>>}

DataInit ==
    /\ \E w \in 0..MaxDataSide, h \in 0..MaxDataSide : data_canvas = data_Canvas_new(w, h)
    /\ data_written = {}
    /\ rgba = None
    /\ pc = "data"
    /\ CanvasIdle /\ CrossIdle
    /\ SphereIdle
    /\ BvhIdle /\ BoxIdle /\ ScatterIdle /\ ColorIdle /\ DrawIdle /\ PpmIdle

\* the pixel at (x, y) replaced by p
DataWrite(x, y, p) ==
    /\ data_canvas' = [data_canvas EXCEPT !.pixels[y + 1][x + 1] = p]
    /\ data_written' = data_written \cup {<<x, y>>}
    /\ UNCHANGED <<rgba, pc>>
    /\ UNCHANGED <<ray, sphere, min_t, max_t, outward, hit>>
    /\ UNCHANGED <<bvh_vars, box_vars, scatter_vars, render_vars, canvas_vars, cross_vars>>

\* canvas.at_mut(x, y).set_rgb(1, 2, 3)
DataSetRgb ==
    /\ pc = "data"
    /\ \E x \in 0..(data_canvas.width - 1), y \in 0..(data_canvas.height - 1) :
          DataWrite(x, y, set_rgb(data_at(data_canvas, x, y), 1, 2, 3))

\* canvas.at_mut(x, y).set_color(c)
DataSetColor ==
    /\ pc = "data"
    /\ \E x \in 0..(data_canvas.width - 1), y \in 0..(data_canvas.height - 1) :
          \E c \in DataColours :
             DataWrite(x, y, set_color(data_at(data_canvas, x, y), c))

\* canvas.at_mut(x, y).set_color_sampled(c * 4, 4)
DataSetColorSampled ==
    /\ pc = "data"
    /\ \E x \in 0..(data_canvas.width - 1), y \in 0..(data_canvas.height - 1) :
          \E c \in DataColours :
             DataWrite(x, y, set_color_sampled(data_at(data_canvas, x, y),
                                               Vec3_scale(F(4), c), 4))

\* canvas.rgba_bytes()
DataRgbaBytes ==
    /\ pc = "data"
    /\ rgba' = rgba_bytes(data_canvas)
    /\ pc' = "data_bytes"
    /\ UNCHANGED <<data_canvas, data_written>>
    /\ UNCHANGED <<ray, sphere, min_t, max_t, outward, hit>>
    /\ UNCHANGED <<bvh_vars, box_vars, scatter_vars, render_vars, canvas_vars, cross_vars>>

DataNext == DataSetRgb \/ DataSetColor \/ DataSetColorSampled \/ DataRgbaBytes

DataSpec == DataInit /\ [][DataNext]_vars

\* every pixel of data_canvas was written through a setter
AllWritten ==
    \A x \in 0..(data_canvas.width - 1), y \in 0..(data_canvas.height - 1) :
       <<x, y>> \in data_written

(***************************************************************************)
(* C12: for a canvas of data.rs in which every pixel was written with      *)
(* set_color, set_color_sampled or set_rgb, rgba_bytes returns exactly     *)
(* width*height groups of four bytes, the alpha byte of each being 255.    *)
(***************************************************************************)
C12_RgbaOpaque ==
    (pc = "data_bytes" /\ AllWritten)
    => /\ Len(rgba) = data_canvas.width * data_canvas.height * 4
       /\ \A k \in 1..(data_canvas.width * data_canvas.height) : rgba[4 * k] = 255

(***************************************************************************)
(* Vec3::cross of data.rs on two vectors.                                  *)
(***************************************************************************)
CrossComponents == {-1, 0, 1, 2}

CrossVectors == {V(x, y, z) : x \in CrossComponents, y \in CrossComponents,
                              z \in CrossComponents}

CrossInit ==
    /\ cross_a \in CrossVectors
    /\ cross_b \in CrossVectors
    /\ cross_out = None
    /\ pc = "cross"
    /\ SphereIdle /\ BvhIdle /\ BoxIdle /\ ScatterIdle /\ ColorIdle /\ DrawIdle /\ PpmIdle
    /\ CanvasIdle /\ DataIdle

\* cross_a.cross(&cross_b)
CrossCall ==
    /\ pc = "cross"
    /\ cross_out' = data_Vec3_cross(cross_a, cross_b)
    /\ pc' = "crossed"
    /\ UNCHANGED <<cross_a, cross_b, ray, sphere, min_t, max_t, outward, hit>>
    /\ UNCHANGED <<bvh_vars, box_vars, scatter_vars, render_vars, canvas_vars, data_vars>>

CrossNext == CrossCall

CrossSpec == CrossInit /\ [][CrossNext]_vars

\* the cross product of a and b
StandardCross(a, b) ==
    <<Sub(Mul(a[2], b[3]), Mul(a[3], b[2])),
      Sub(Mul(a[3], b[1]), Mul(a[1], b[3])),
      Sub(Mul(a[1], b[2]), Mul(a[2], b[1]))>>

(***************************************************************************)
(* C21: Vec3::cross of data.rs returns the cross product                   *)
(* (a.y*b.z - a.z*b.y, a.z*b.x - a.x*b.z, a.x*b.y - a.y*b.x) of its        *)
(* operands, which is orthogonal to both (its dot product with each is 0)  *)
(* and anti-commutative (cross(a, b) is the negation of cross(b, a)).      *)
(***************************************************************************)
C21_CrossStandard ==
    pc = "crossed" =>
        /\ cross_out = StandardCross(cross_a, cross_b)
        /\ data_Vec3_dot(cross_out, cross_a) = F(0)
        /\ data_Vec3_dot(cross_out, cross_b) = F(0)
        /\ cross_out = flip(data_Vec3_cross(cross_b, cross_a))

(***************************************************************************)
(* The whole model: any of the operations above.                           *)
(***************************************************************************)
Init ==
    \/ SphereInit
    \/ BvhInit
    \/ BoxInit
    \/ ScatterInit
    \/ ColorInit
    \/ DrawInit
    \/ PpmInit
    \/ CanvasInit
    \/ DataInit
    \/ CollInit
    \/ NodeInit
    \/ DataSphereInit
    \/ TracerInit
    \/ CrossInit
    \/ MovingInit

Next ==
    \/ SphereNext
    \/ BvhNext
    \/ BoxNext
    \/ ScatterNext
    \/ ColorNext
    \/ DrawNext
    \/ PpmNext
    \/ CanvasNext
    \/ DataNext
    \/ CollNext
    \/ NodeNext
    \/ DataSphereNext
    \/ TracerNext
    \/ CrossNext
    \/ MovingNext

Spec == Init /\ [][Next]_vars
====
